---- MODULE Spec2Model ----
(***************************************************************************)
(* Verification model of the BLE command gateway (ble-command-gateway).    *)
(*                                                                         *)
(* The server is an asyncio program: cooperative tasks that run from one   *)
(* suspension point to the next, taken in FIFO order from the event        *)
(* loop's ready queue.  Every action below is one such step (or one        *)
(* external event: an inbound write, an I/O completion, a timer).          *)
(***************************************************************************)
EXTENDS Integers, Sequences, FiniteSets, TLC

(***************************************************************************)
(* Bounds of the model.                                                    *)
(***************************************************************************)
MaxWrites == 2
MaxDirect == 2
MaxBeats == 1
MaxCalls == 2

(***************************************************************************)
(* protocol/envelope.py: status codes and response constructors.           *)
(***************************************************************************)
CODE_OK == "OK"
CODE_BAD_JSON == "BAD_JSON"
CODE_BAD_REQUEST == "BAD_REQUEST"
CODE_UNKNOWN_COMMAND == "UNKNOWN_COMMAND"
CODE_BUSY == "BUSY"
CODE_IN_PROGRESS == "IN_PROGRESS"
CODE_PROVISION_SUCCESS == "PROVISION_SUCCESS"
CODE_PROVISION_FAIL == "PROVISION_FAIL"
CODE_INTERNAL_ERROR == "INTERNAL_ERROR"
CODE_TIMEOUT == "TIMEOUT"

STATUS_STANDBY == "Standby"

\* data.final of a response: "absent" when data carries no final key.
response_ok(request_id, text) ==
    [rid |-> request_id, ok |-> TRUE, code |-> CODE_OK, text |-> text, final |-> "absent"]

response_error(request_id, code, text) ==
    [rid |-> request_id, ok |-> FALSE, code |-> code, text |-> text, final |-> "absent"]

response_status(request_id, code, text, final) ==
    [rid |-> request_id, ok |-> (code # CODE_PROVISION_FAIL), code |-> code, text |-> text,
     final |-> IF final THEN "true" ELSE "false"]

(***************************************************************************)
(* Inbound frames.  A frame is described by what parse_request looks at:   *)
(*   json : "invalid" (not JSON), "nonobject" (JSON, top level no object), *)
(*          "object"                                                       *)
(*   cmd  : "absent", "nonstring", "blank" or the (stripped) command name  *)
(*   id   : "absent", "nonstring", "blank" or the (stripped) request id    *)
(*   args : "absent", "nonobject" or "object"                              *)
(*   ssid, pwd : the values of args.ssid and args.pwd, see ArgValue        *)
(***************************************************************************)
RIDs == {"a", "b"}

\* uuid4 ids generated for frames without an id: fresh per write.
GenIds == <<"u1", "u2", "u3", "u4", "u5", "u6">>

new_request_id(n) == GenIds[n]

\* An argument value: its JSON type and, for a string, its length after
\* strip(), its raw length and whether every character is a hex digit.
ArgAbsent == [type |-> "absent", len |-> 0, stripped |-> 0, hex |-> FALSE]
ArgNull == [type |-> "null", len |-> 0, stripped |-> 0, hex |-> FALSE]
ArgNumber == [type |-> "number", len |-> 0, stripped |-> 0, hex |-> FALSE]
ArgStr(len, stripped, hex) == [type |-> "string", len |-> len, stripped |-> stripped, hex |-> hex]

parse_request(frame, n) ==
    IF frame.json = "invalid" THEN
        [err |-> TRUE, code |-> CODE_BAD_JSON, rid |-> "-", cmd |-> "", ssid |-> ArgAbsent, pwd |-> ArgAbsent]
    ELSE IF frame.json # "object" THEN
        [err |-> TRUE, code |-> CODE_BAD_REQUEST, rid |-> "-", cmd |-> "", ssid |-> ArgAbsent, pwd |-> ArgAbsent]
    ELSE IF frame.cmd \in {"absent", "nonstring", "blank"} THEN
        [err |-> TRUE, code |-> CODE_BAD_REQUEST, rid |-> "-", cmd |-> "", ssid |-> ArgAbsent, pwd |-> ArgAbsent]
    ELSE IF frame.id \in {"nonstring", "blank"} THEN
        [err |-> TRUE, code |-> CODE_BAD_REQUEST, rid |-> "-", cmd |-> "", ssid |-> ArgAbsent, pwd |-> ArgAbsent]
    ELSE IF frame.args = "nonobject" THEN
        [err |-> TRUE, code |-> CODE_BAD_REQUEST, rid |-> "-", cmd |-> "", ssid |-> ArgAbsent, pwd |-> ArgAbsent]
    ELSE
        [err |-> FALSE, code |-> CODE_OK,
         rid |-> IF frame.id = "absent" THEN new_request_id(n) ELSE frame.id,
         cmd |-> frame.cmd,
         ssid |-> IF frame.args = "object" THEN frame.ssid ELSE ArgAbsent,
         pwd |-> IF frame.args = "object" THEN frame.pwd ELSE ArgAbsent]

(***************************************************************************)
(* commands/schemas.py, commands/registry.py, commands/builtins.           *)
(***************************************************************************)
CMD_PING == "ping"
CMD_PROVISION == "provision"
CMD_SHUTDOWN == "shutdown"

\* The registry after load_builtin_commands, restricted to the commands
\* the model sends: name -> ordered argument specs.
ArgSpec(name, required) == [name |-> name, type_name |-> "str", required |-> required]

Registry ==
    [c \in {CMD_PING, CMD_PROVISION, CMD_SHUTDOWN} |->
        IF c = CMD_PROVISION THEN <<ArgSpec("ssid", TRUE), ArgSpec("pwd", FALSE)>> ELSE <<>>]

ArgOf(request, name) == IF name = "ssid" THEN request.ssid ELSE request.pwd

\* payload.get(name) is None for an absent key and for a JSON null.
IsNone(v) == v.type \in {"absent", "null"}

\* Variant: only the required rule is checked.
RECURSIVE validate_required_only(_, _, _)
validate_required_only(specs, request, k) ==
    IF k > Len(specs) THEN "none"
    ELSE LET arg == specs[k]
             value == ArgOf(request, arg.name)
         IN IF arg.required /\ (IsNone(value) \/ (value.type = "string" /\ value.stripped = 0))
                THEN "required"
            ELSE validate_required_only(specs, request, k + 1)

\* CommandSpec.validate_args: the first failing argument decides.
RECURSIVE validate_from(_, _, _)
validate_from(specs, request, k) ==
    IF k > Len(specs) THEN "none"
    ELSE LET arg == specs[k]
             value == ArgOf(request, arg.name)
         IN IF arg.required /\ (IsNone(value) \/ (value.type = "string" /\ value.stripped = 0))
                THEN "required"
            ELSE IF IsNone(value) THEN validate_from(specs, request, k + 1)
            ELSE IF arg.type_name = "str" /\ value.type # "string" THEN "must be string"
            ELSE validate_from(specs, request, k + 1)

validate_args(specs, request) == validate_from(specs, request, 1)

\* str(request.args.get("pwd", "")): an absent key gives "", a JSON null
\* gives the four characters "None".
PasswordText(v) ==
    IF v.type = "absent" THEN [len |-> 0, hex |-> TRUE]
    ELSE IF v.type = "null" THEN [len |-> 4, hex |-> FALSE]
    ELSE [len |-> v.len, hex |-> v.hex]

\* Variant: 64 characters of any kind are accepted.
_is_valid_wifi_password_any64(p) ==
    \/ p.len = 0
    \/ (8 <= p.len /\ p.len <= 64)

_is_valid_wifi_password(p) ==
    \/ p.len = 0
    \/ (8 <= p.len /\ p.len <= 63)
    \/ (p.len = 64 /\ p.hex)


(***************************************************************************)
(* Inbound frames the server model is driven with.                         *)
(***************************************************************************)
NoFrame == [json |-> "none", cmd |-> "", id |-> "", args |-> "absent", ssid |-> ArgAbsent, pwd |-> ArgAbsent]

Request(cmd, id) ==
    [json |-> "object", cmd |-> cmd, id |-> id, args |-> "absent", ssid |-> ArgAbsent, pwd |-> ArgAbsent]

ProvisionFrame(id, ssid, pwd) ==
    [json |-> "object", cmd |-> CMD_PROVISION, id |-> id, args |-> "object", ssid |-> ssid, pwd |-> pwd]

GoodSsid == ArgStr(7, 7, FALSE)

\* args without ssid, with a whitespace-only, a null or a numeric ssid, and
\* with a numeric pwd.
InvalidArgsFrames ==
    {ProvisionFrame("a", ArgAbsent, ArgStr(1, 1, FALSE)),
     ProvisionFrame("a", ArgStr(2, 0, FALSE), ArgAbsent),
     ProvisionFrame("a", ArgNull, ArgStr(8, 8, FALSE)),
     ProvisionFrame("a", ArgNumber, ArgAbsent),
     ProvisionFrame("a", GoodSsid, ArgNumber)}

BadPasswordFrames == {ProvisionFrame("a", GoodSsid, ArgStr(7, 7, FALSE))}

\* Passwords of every kind the handler tells apart: none, the empty string,
\* 7 characters, 8 characters, 8 blanks, 63 characters, 64 hexadecimal
\* digits, 64 other characters, 65 hexadecimal digits.
PasswordShapes ==
    {ArgAbsent, ArgStr(0, 0, TRUE), ArgStr(7, 7, TRUE), ArgStr(8, 8, FALSE), ArgStr(8, 0, FALSE),
     ArgStr(63, 63, FALSE), ArgStr(64, 64, TRUE), ArgStr(64, 64, FALSE), ArgStr(65, 65, TRUE)}

PasswordFrames == {ProvisionFrame("a", GoodSsid, pwd) : pwd \in PasswordShapes}

\* A JSON null given for the optional pwd.
NullPasswordFrames == {ProvisionFrame("a", GoodSsid, ArgNull)}

\* Not JSON, a JSON array, no cmd, a blank id, args that are no object.
MalformedFrames ==
    {[NoFrame EXCEPT !.json = "invalid"],
     [NoFrame EXCEPT !.json = "nonobject"],
     Request("absent", "a"),
     Request(CMD_PING, "blank"),
     [Request(CMD_PING, "a") EXCEPT !.args = "nonobject"]}

\* The writes of the server specification: provisioning requests with two
\* request ids and a shutdown request.
Frames ==
    {ProvisionFrame(r, GoodSsid, ArgAbsent) : r \in RIDs} \cup {Request(CMD_SHUTDOWN, "b")}

\* The writes of the dispatch specification: the ways a frame or its
\* arguments can be wrong, next to one valid provisioning request.
DispatchFrames ==
    {ProvisionFrame("absent", GoodSsid, ArgStr(8, 8, FALSE)), Request("nope", "a")}
        \cup InvalidArgsFrames \cup BadPasswordFrames \cup NullPasswordFrames \cup MalformedFrames

(***************************************************************************)
(* State of the server process.                                            *)
(***************************************************************************)
VARIABLES
    pyInline,       \* asyncio.wait_for awaits the handler in the caller's task (3.12+) or in a task of its own (3.11)
    ready,          \* the event loop's FIFO queue of callbacks ready to run
    phase,          \* "run", or "teardown" once asyncio.run has cancelled the remaining tasks
    mainPc,         \* main(): "wait" on _shutdown_requested, "ready", "stopping" in stop(), "stopped", "done"
    server,         \* self.server is not None
    shutdownRequested, \* _shutdown_requested
    nWrites,        \* inbound writes received so far
    frames,         \* value of write i until its handler has run
    pwPc,           \* _process_write task i: "none", "new", "wait", "woken", "done"
    htPc,           \* handler task of wait_for (3.11): "none", "new", "done"
    htResult,       \* response the handler task returned
    nDirect,        \* direct calls of _provision_wifi (test harness)
    pvPc,           \* _provision_wifi task: "none", "new", "join", "joined", "await_hb", "fin_hb", "done"
    pvRid,          \* its request_id
    pvJoin,         \* how connect_and_get_ip finished: "none", "ok", "fail", "raise", "cancel"
    hbPc,           \* _provision_heartbeat task: "none", "new", "sleep", "woken", "done"
    hbStop,         \* heartbeat_stop
    beats,          \* heartbeats published so far
    mustCancel,     \* tasks with a cancellation to deliver at their next step
    lockHolder,     \* attempt holding _connect_lock, 0 when free
    pending,        \* _provision_task_pending
    statusText,     \* ResponsePublisher._status_text
    slot,           \* response held by the outbound characteristic
    log,            \* every response published, in order, with the task that published it
    joinCalls,      \* attempts that invoked connect_and_get_ip
    handlerRuns,    \* writes whose command handler was executed
    dispatchCalls,  \* writes for which CommandDispatcher.dispatch was invoked
    startCalls      \* outcome of _start_provision per write: "none", "accepted", "rejected"

serverVars == <<pyInline, ready, phase, mainPc, server, shutdownRequested, nWrites, frames, pwPc,
                htPc, htResult, nDirect, pvPc, pvRid, pvJoin, hbPc, hbStop, beats, mustCancel,
                lockHolder, pending, statusText, slot, log, joinCalls, handlerRuns, dispatchCalls,
                startCalls>>

\* State of a dispatcher with handlers of arbitrary behaviour.
VARIABLES
    rtCalls,        \* dispatch calls made so far
    rtPc,           \* "idle", or "waiting" while wait_for awaits a suspended handler
    rtReq,          \* request id of the call in progress
    rtOut           \* how every finished dispatch call ended, in order

rtVars == <<rtCalls, rtPc, rtReq, rtOut>>

\* State of a dispatcher under construction: CommandDispatcher.register.
VARIABLES
    _registry,      \* CommandDispatcher._registry: name -> RegisteredCommand
    regOut          \* every register call so far, in order, and whether it raised

regVars == <<_registry, regOut>>

\* One call of ResponsePublisher._chunk_response_if_needed.
VARIABLES
    splPc,          \* "idle", "new" before the call, "done" after it
    splResponse,    \* the response passed in
    splMaxBytes,    \* max_bytes
    splOut          \* the payloads the call yielded, in order

splVars == <<splPc, splResponse, splMaxBytes, splOut>>

\* One call of the client's wait_response or wait_status.
VARIABLES
    clCall,         \* "idle", "wait_response" or "wait_status"
    clTimeout,      \* the timeout argument, in seconds
    clNow,          \* time.monotonic() since the call began, in fifths of a second
    clPolls,        \* loop iterations so far
    clRead,         \* outcome of the latest read_gatt_char
    clResult,       \* how the call ended, kind "waiting" while it runs
    rx_chunks,      \* wait_response: chunks, index -> text of the fragments kept
    total_chunks,   \* wait_response: total of the latest fragment, 0 for None
    last_chunk_time, \* wait_response
    read_errors,    \* wait_status
    last_progress,  \* wait_status
    last_status,    \* wait_status
    last_signature  \* wait_status: <<code, status, final>>, <<>> for None

clVars == <<clCall, clTimeout, clNow, clPolls, clRead, clResult, rx_chunks, total_chunks,
            last_chunk_time, read_errors, last_progress, last_status, last_signature>>

\* Writes of one client to the write characteristic over one connection.
VARIABLES
    wrPath,         \* "idle", "fallback" (write_with_fallback) or "session" (WriteSession.write)
    wrConfig,       \* WriteSession.config
    wrState,        \* WriteSession.state
    wrLog           \* every write call so far, in order: what it was given, sent and returned

wrVars == <<wrPath, wrConfig, wrState, wrLog>>

\* One use of the codec of protocol/envelope.py.
VARIABLES
    cdPc,           \* "idle", "new" before the call, "done" after it
    cdOp,           \* "parse_request", "request_roundtrip" or "response_roundtrip"
    cdIn,           \* the text, the CommandRequest or the CommandResponse passed in
    cdOut           \* what came back: a parse error, or the request or response parsed

cdVars == <<cdPc, cdOp, cdIn, cdOut>>

\* One ResponsePublisher and the calls made on it.
VARIABLES
    _status_text,   \* ResponsePublisher._status_text
    _last_payload,  \* ResponsePublisher._last_payload
    _payload_queue, \* ResponsePublisher._payload_queue: <<index, total, payload>> in order
    _current_chunk, \* ResponsePublisher._current_chunk: <<index, total>>, <<>> for None
    pubLog          \* the calls so far: publish with its response and payloads, reads with what they returned

pubVars == <<_status_text, _last_payload, _payload_queue, _current_chunk, pubLog>>

\* One HelloLinkServer and the writes it has handled.
VARIABLES
    _reply_cache,   \* HelloLinkServer._reply_cache: the entries in the order of the OrderedDict
    _client_active, \* HelloLinkServer._client_active
    lkFresh,        \* how many different sequence tokens the client has used
    lkInserts,      \* how many entries have been put into the cache
    lkIn,           \* the frame of the last write, <<>> before the first
    lkOut           \* what the last write was answered with, <<>> before the first

lkVars == <<_reply_cache, _client_active, lkFresh, lkInserts, lkIn, lkOut>>

vars == <<serverVars, rtVars, regVars, splVars, clVars, wrVars, cdVars, pubVars, lkVars>>

\* What the actions of one component leave alone.
exceptServer == <<rtVars, regVars, splVars, clVars, wrVars, cdVars, pubVars, lkVars>>
exceptRuntime == <<serverVars, regVars, splVars, clVars, wrVars, cdVars, pubVars, lkVars>>
exceptRegistry == <<serverVars, rtVars, splVars, clVars, wrVars, cdVars, pubVars, lkVars>>
exceptSplitter == <<serverVars, rtVars, regVars, clVars, wrVars, cdVars, pubVars, lkVars>>
exceptClient == <<serverVars, rtVars, regVars, splVars, wrVars, cdVars, pubVars, lkVars>>
exceptWriter == <<serverVars, rtVars, regVars, splVars, clVars, cdVars, pubVars, lkVars>>
exceptCodec == <<serverVars, rtVars, regVars, splVars, clVars, wrVars, pubVars, lkVars>>
exceptPublisher == <<serverVars, rtVars, regVars, splVars, clVars, wrVars, cdVars, lkVars>>
exceptLink == <<serverVars, rtVars, regVars, splVars, clVars, wrVars, cdVars, pubVars>>

Writes == 1..MaxWrites
Attempts == 1..(MaxWrites + MaxDirect)

T(kind, i) == [k |-> kind, i |-> i]
MainTask == T("main", 0)

\* The callback that stops the event loop once main() is done.
StopLoop == T("stop", 0)

NoResponse == [rid |-> "", ok |-> FALSE, code |-> "", text |-> "", final |-> "absent"]

\* The state after construction of the server, the dispatchers and the
\* registry.
InitProgram ==
    /\ pyInline \in BOOLEAN
    /\ ready = <<>>
    /\ phase = "run"
    /\ mainPc = "wait"
    /\ server = TRUE
    /\ shutdownRequested = FALSE
    /\ nWrites = 0
    /\ frames = [i \in Writes |-> NoFrame]
    /\ pwPc = [i \in Writes |-> "none"]
    /\ htPc = [i \in Writes |-> "none"]
    /\ htResult = [i \in Writes |-> NoResponse]
    /\ nDirect = 0
    /\ pvPc = [i \in Attempts |-> "none"]
    /\ pvRid = [i \in Attempts |-> ""]
    /\ pvJoin = [i \in Attempts |-> "none"]
    /\ hbPc = [i \in Attempts |-> "none"]
    /\ hbStop = [i \in Attempts |-> FALSE]
    /\ beats = 0
    /\ mustCancel = {}
    /\ lockHolder = 0
    /\ pending = FALSE
    /\ statusText = STATUS_STANDBY
    /\ slot = response_ok("-", STATUS_STANDBY)
    /\ log = <<>>
    /\ joinCalls = {}
    /\ handlerRuns = {}
    /\ dispatchCalls = {}
    /\ startCalls = [i \in Writes |-> "none"]
    /\ rtCalls = 0
    /\ rtPc = "idle"
    /\ rtReq = ""
    /\ rtOut = <<>>
    /\ _registry = <<>>
    /\ regOut = <<>>

\* No call of the splitter, no client call.
SplitterIdle ==
    /\ splPc = "idle"
    /\ splResponse = NoResponse
    /\ splMaxBytes = 0
    /\ splOut = <<>>

NoRead == [kind |-> "none", id |-> "", ok |-> FALSE, code |-> "", text |-> <<>>,
           index |-> 0, total |-> 0, final |-> "absent"]

ClientLocals ==
    /\ clNow = 0
    /\ clPolls = 0
    /\ clRead = NoRead
    /\ clResult = [kind |-> "waiting", code |-> "", why |-> "", response |-> NoRead]
    /\ rx_chunks = <<>>
    /\ total_chunks = 0
    /\ last_chunk_time = 0
    /\ read_errors = 0
    /\ last_progress = 0
    /\ last_status = <<"waiting">>
    /\ last_signature = <<>>

ClientIdle ==
    /\ clCall = "idle"
    /\ clTimeout = 0
    /\ ClientLocals

\* @dataclass WriteConfig, WriteState
WriteConfig(allow_no_response, assume_sent_on_ack_quirk) ==
    [allow_no_response |-> allow_no_response, assume_sent_on_ack_quirk |-> assume_sent_on_ack_quirk]
WriteState(sticky_no_response) == [sticky_no_response |-> sticky_no_response]

WriterIdle ==
    /\ wrPath = "idle"
    /\ wrConfig = WriteConfig(FALSE, TRUE)
    /\ wrState = WriteState(FALSE)
    /\ wrLog = <<>>

CodecIdle ==
    /\ cdPc = "idle"
    /\ cdOp = "none"
    /\ cdIn = <<>>
    /\ cdOut = <<>>

\* No publisher has been constructed.
PublisherIdle ==
    /\ _status_text = <<>>
    /\ _last_payload = <<>>
    /\ _payload_queue = <<>>
    /\ _current_chunk = <<>>
    /\ pubLog = <<>>

\* The link server as constructed: nothing cached, no client seen.
LinkIdle ==
    /\ _reply_cache = <<>>
    /\ _client_active = FALSE
    /\ lkFresh = 0
    /\ lkInserts = 0
    /\ lkIn = <<>>
    /\ lkOut = <<>>

Init ==
    /\ InitProgram
    /\ SplitterIdle
    /\ ClientIdle
    /\ WriterIdle
    /\ CodecIdle
    /\ PublisherIdle
    /\ LinkIdle

(***************************************************************************)
(* ble/response_publisher.py: publish.                                     *)
(***************************************************************************)
\* Variant: every code is a status code.
_should_update_status_always(code) == TRUE

_should_update_status(code) ==
    code \in {CODE_BUSY, CODE_IN_PROGRESS, CODE_PROVISION_SUCCESS, CODE_PROVISION_FAIL}

Publish(response, kind, i) ==
    /\ slot' = response
    /\ statusText' = IF _should_update_status(response.code) THEN response.text ELSE statusText
    /\ log' = Append(log, [resp |-> response, by |-> kind, src |-> i])

NoPublish == UNCHANGED <<slot, statusText, log>>

(***************************************************************************)
(* ble/server_gateway.py                                                   *)
(***************************************************************************)
\* Variant: the lock never reads as held.
LockedNever == FALSE

Locked == lockHolder # 0

\* Variants: a start is never rejected; only the lock decides.
StartRejectsNever == FALSE

StartRejectsLockOnly == Locked

\* _start_provision rejects when the lock is held or an attempt is pending.
StartRejects == Locked \/ pending

Running(task) == ready # <<>> /\ Head(ready) = task /\ task \notin mustCancel

\* _handle_write_request: a task is created for every inbound write.
Write(frame) ==
    /\ phase = "run"
    /\ nWrites < MaxWrites
    /\ nWrites' = nWrites + 1
    /\ frames' = [frames EXCEPT ![nWrites + 1] = frame]
    /\ pwPc' = [pwPc EXCEPT ![nWrites + 1] = "new"]
    /\ ready' = Append(ready, T("pw", nWrites + 1))
    /\ UNCHANGED exceptServer
    /\ UNCHANGED <<pyInline, dispatchCalls, phase, mainPc, server, shutdownRequested, htPc, htResult, nDirect,
                   pvPc, pvRid, pvJoin, hbPc, hbStop, beats, mustCancel, lockHolder, pending,
                   statusText, slot, log, joinCalls, handlerRuns, startCalls>>

\* A write of the server specification.  Request ids are interchangeable,
\* so the first write of a run is not the provisioning request with id "b".
ServerWrite(frame) ==
    /\ nWrites = 0 => frame # ProvisionFrame("b", GoodSsid, ArgAbsent)
    /\ Write(frame)

\* Variant: the registry lookup is skipped.
DispatchCheckNoLookup(req) ==
    IF req.cmd \in DOMAIN Registry /\ validate_args(Registry[req.cmd], req) # "none" THEN "bad_request"
    ELSE "run"

\* CommandDispatcher.dispatch up to the handler: the registry lookup and
\* the argument validation.
DispatchCheck(req) ==
    IF req.cmd \notin DOMAIN Registry THEN "unknown"
    ELSE IF validate_args(Registry[req.cmd], req) # "none" THEN "bad_request"
    ELSE "run"

\* The provision handler reaches context.start_provision.
CallsStart(req) == req.cmd = CMD_PROVISION /\ _is_valid_wifi_password(PasswordText(req.pwd))

\* What the command handler returns, in the current state.
HandlerResponse(req) ==
    IF req.cmd = CMD_PROVISION THEN
        IF ~CallsStart(req) THEN response_error(req.rid, CODE_BAD_REQUEST, "Invalid Wi-Fi password")
        ELSE IF StartRejects THEN response_status(req.rid, CODE_BUSY, "Provisioning in progress", TRUE)
        ELSE response_status(req.rid, CODE_IN_PROGRESS, "Provision accepted", FALSE)
    ELSE IF req.cmd = CMD_SHUTDOWN THEN response_ok(req.rid, "Shutdown scheduled")
    ELSE response_ok(req.rid, "pong")

\* What the command handler does for write i: _start_provision marks the
\* attempt pending and creates its task, _start_shutdown sets the event
\* main() waits on.  q is the ready queue the created tasks are appended
\* to, tail what the caller schedules after the handler has returned.
RunHandler(i, req, q, tail) ==
    LET accepted == CallsStart(req) /\ ~StartRejects
        wakesMain == req.cmd = CMD_SHUTDOWN /\ mainPc = "wait"
    IN /\ handlerRuns' = handlerRuns \cup {i}
       /\ startCalls' = IF CallsStart(req)
                          THEN [startCalls EXCEPT ![i] = IF accepted THEN "accepted" ELSE "rejected"]
                          ELSE startCalls
       /\ pending' = IF accepted THEN TRUE ELSE pending
       /\ pvPc' = IF accepted THEN [pvPc EXCEPT ![i] = "new"] ELSE pvPc
       /\ pvRid' = IF accepted THEN [pvRid EXCEPT ![i] = req.rid] ELSE pvRid
       /\ shutdownRequested' = (shutdownRequested \/ req.cmd = CMD_SHUTDOWN)
       /\ mainPc' = IF wakesMain THEN "ready" ELSE mainPc
       /\ ready' = q \o (IF accepted THEN <<T("pv", i)>> ELSE <<>>)
                     \o (IF wakesMain THEN <<MainTask>> ELSE <<>>) \o tail

\* Variant: a frame that fails to parse is dropped without a response.
PwParseErrorSilent(i) ==
    LET req == parse_request(frames[i], i) IN
    /\ Running(T("pw", i)) /\ pwPc[i] = "new"
    /\ req.err
    /\ NoPublish
    /\ pwPc' = [pwPc EXCEPT ![i] = "done"]
    /\ frames' = [frames EXCEPT ![i] = NoFrame]
    /\ ready' = Tail(ready)
    /\ UNCHANGED exceptServer
    /\ UNCHANGED <<pyInline, dispatchCalls, phase, mainPc, server, shutdownRequested, nWrites, htPc,
                   htResult, nDirect, pvPc, pvRid, pvJoin, hbPc, hbStop, beats, mustCancel,
                   lockHolder, pending, joinCalls, handlerRuns, startCalls>>

\* _process_write, parse failure: one error response, no dispatch.
PwParseError(i) ==
    LET req == parse_request(frames[i], i) IN
    /\ Running(T("pw", i)) /\ pwPc[i] = "new"
    /\ req.err
    /\ Publish(response_error("-", req.code, "parse error"), "pw", i)
    /\ pwPc' = [pwPc EXCEPT ![i] = "done"]
    /\ frames' = [frames EXCEPT ![i] = NoFrame]
    /\ ready' = Tail(ready)
    /\ UNCHANGED exceptServer
    /\ UNCHANGED <<pyInline, dispatchCalls, phase, mainPc, server, shutdownRequested, nWrites, htPc, htResult,
                   nDirect, pvPc, pvRid, pvJoin, hbPc, hbStop, beats, mustCancel, lockHolder,
                   pending, joinCalls, handlerRuns, startCalls>>

\* _process_write, dispatch answers without running a handler.
PwDispatchReject(i) ==
    LET req == parse_request(frames[i], i) IN
    /\ Running(T("pw", i)) /\ pwPc[i] = "new"
    /\ ~req.err
    /\ DispatchCheck(req) # "run"
    /\ Publish(IF DispatchCheck(req) = "unknown"
                 THEN response_error(req.rid, CODE_UNKNOWN_COMMAND, "Unknown command")
                 ELSE response_error(req.rid, CODE_BAD_REQUEST, validate_args(Registry[req.cmd], req)),
               "pw", i)
    /\ dispatchCalls' = dispatchCalls \cup {i}
    /\ pwPc' = [pwPc EXCEPT ![i] = "done"]
    /\ frames' = [frames EXCEPT ![i] = NoFrame]
    /\ ready' = Tail(ready)
    /\ UNCHANGED exceptServer
    /\ UNCHANGED <<pyInline, phase, mainPc, server, shutdownRequested, nWrites, htPc, htResult,
                   nDirect, pvPc, pvRid, pvJoin, hbPc, hbStop, beats, mustCancel, lockHolder,
                   pending, joinCalls, handlerRuns, startCalls>>

\* _process_write where wait_for awaits the handler in the caller's task:
\* the handler runs and its response is published in the same step.
PwRunInline(i) ==
    LET req == parse_request(frames[i], i) IN
    /\ Running(T("pw", i)) /\ pwPc[i] = "new"
    /\ pyInline
    /\ ~req.err
    /\ DispatchCheck(req) = "run"
    /\ RunHandler(i, req, Tail(ready), <<>>)
    /\ Publish(HandlerResponse(req), "pw", i)
    /\ dispatchCalls' = dispatchCalls \cup {i}
    /\ pwPc' = [pwPc EXCEPT ![i] = "done"]
    /\ frames' = [frames EXCEPT ![i] = NoFrame]
    /\ UNCHANGED exceptServer
    /\ UNCHANGED <<pyInline, phase, server, nWrites, htPc, htResult, nDirect, pvJoin, hbPc,
                   hbStop, beats, mustCancel, lockHolder, joinCalls>>

\* _process_write where wait_for wraps the handler in a task of its own
\* and the caller waits for it.
PwSpawnHandler(i) ==
    LET req == parse_request(frames[i], i) IN
    /\ Running(T("pw", i)) /\ pwPc[i] = "new"
    /\ ~pyInline
    /\ ~req.err
    /\ DispatchCheck(req) = "run"
    /\ dispatchCalls' = dispatchCalls \cup {i}
    /\ pwPc' = [pwPc EXCEPT ![i] = "wait"]
    /\ htPc' = [htPc EXCEPT ![i] = "new"]
    /\ ready' = Append(Tail(ready), T("ht", i))
    /\ NoPublish
    /\ UNCHANGED exceptServer
    /\ UNCHANGED <<pyInline, phase, mainPc, server, shutdownRequested, nWrites, frames, htResult,
                   nDirect, pvPc, pvRid, pvJoin, hbPc, hbStop, beats, mustCancel, lockHolder,
                   pending, joinCalls, handlerRuns, startCalls>>

\* The handler task: runs the handler, then its done callback is scheduled.
HtRun(i) ==
    LET req == parse_request(frames[i], i) IN
    /\ Running(T("ht", i)) /\ htPc[i] = "new"
    /\ RunHandler(i, req, Tail(ready), <<T("rel", i)>>)
    /\ htResult' = [htResult EXCEPT ![i] = HandlerResponse(req)]
    /\ htPc' = [htPc EXCEPT ![i] = "done"]
    /\ frames' = [frames EXCEPT ![i] = NoFrame]
    /\ NoPublish
    /\ UNCHANGED exceptServer
    /\ UNCHANGED <<pyInline, dispatchCalls, phase, server, nWrites, pwPc, nDirect, pvJoin, hbPc, hbStop, beats,
                   mustCancel, lockHolder, joinCalls>>

\* _release_waiter: the done callback of the handler task wakes the caller.
RelRun(i) ==
    /\ Running(T("rel", i))
    /\ pwPc' = [pwPc EXCEPT ![i] = "woken"]
    /\ ready' = Append(Tail(ready), T("pw", i))
    /\ NoPublish
    /\ UNCHANGED exceptServer
    /\ UNCHANGED <<pyInline, dispatchCalls, phase, mainPc, server, shutdownRequested, nWrites, frames, htPc,
                   htResult, nDirect, pvPc, pvRid, pvJoin, hbPc, hbStop, beats, mustCancel,
                   lockHolder, pending, joinCalls, handlerRuns, startCalls>>

\* _process_write resumes with the handler's response and publishes it.
PwResume(i) ==
    /\ ready # <<>> /\ Head(ready) = T("pw", i) /\ pwPc[i] = "woken"
    /\ Publish(htResult[i], "pw", i)
    /\ pwPc' = [pwPc EXCEPT ![i] = "done"]
    /\ htResult' = [htResult EXCEPT ![i] = NoResponse]
    /\ ready' = Tail(ready)
    /\ UNCHANGED exceptServer
    /\ UNCHANGED <<pyInline, dispatchCalls, phase, mainPc, server, shutdownRequested, nWrites, frames, htPc,
                   nDirect, pvPc, pvRid, pvJoin, hbPc, hbStop, beats, mustCancel, lockHolder,
                   pending, joinCalls, handlerRuns, startCalls>>


(***************************************************************************)
(* _provision_wifi and _provision_heartbeat.                               *)
(***************************************************************************)
\* A task that finishes wakes the task awaiting it.
WakeAwaiter(i, q) == IF pvPc[i] \in {"await_hb", "fin_hb"} THEN Append(q, T("pv", i)) ELSE q

FinalResponse(i) ==
    IF pvJoin[i] = "ok"
        THEN response_status(pvRid[i], CODE_PROVISION_SUCCESS, "Success_IP", TRUE)
        ELSE response_status(pvRid[i], CODE_PROVISION_FAIL, "join failed", TRUE)

\* Lines 224-226 and the finally block: the lock is held, BUSY is
\* published and the pending flag is cleared.
PvBusy(i) ==
    /\ Running(T("pv", i)) /\ pvPc[i] = "new"
    /\ Locked
    /\ Publish(response_status(pvRid[i], CODE_BUSY, "Provisioning in progress", TRUE), "pv", i)
    /\ pending' = FALSE
    /\ pvPc' = [pvPc EXCEPT ![i] = "done"]
    /\ ready' = Tail(ready)
    /\ UNCHANGED exceptServer
    /\ UNCHANGED <<pyInline, dispatchCalls, phase, mainPc, server, shutdownRequested, nWrites, frames, pwPc, htPc,
                   htResult, nDirect, pvRid, pvJoin, hbPc, hbStop, beats, mustCancel, lockHolder,
                   joinCalls, handlerRuns, startCalls>>

\* Lines 228-232: take the lock, publish "Connecting", start the heartbeat
\* task and call connect_and_get_ip, which suspends on its first I/O.
PvBegin(i) ==
    /\ Running(T("pv", i)) /\ pvPc[i] = "new"
    /\ ~Locked
    /\ lockHolder' = i
    /\ Publish(response_status(pvRid[i], CODE_IN_PROGRESS, "Connecting", FALSE), "pv", i)
    /\ hbPc' = [hbPc EXCEPT ![i] = "new"]
    /\ joinCalls' = joinCalls \cup {i}
    /\ pvPc' = [pvPc EXCEPT ![i] = "join"]
    /\ ready' = Append(Tail(ready), T("hb", i))
    /\ UNCHANGED exceptServer
    /\ UNCHANGED <<pyInline, dispatchCalls, phase, mainPc, server, shutdownRequested, nWrites, frames, pwPc, htPc,
                   htResult, nDirect, pvRid, pvJoin, hbStop, beats, mustCancel, pending,
                   handlerRuns, startCalls>>

\* The same, where connect_and_get_ip returns success without suspending
\* (already connected to the SSID with an address): the step runs on to
\* heartbeat_stop.set() and awaits the heartbeat task.
PvBeginJoinReturns(i) ==
    /\ Running(T("pv", i)) /\ pvPc[i] = "new"
    /\ ~Locked
    /\ lockHolder' = i
    /\ Publish(response_status(pvRid[i], CODE_IN_PROGRESS, "Connecting", FALSE), "pv", i)
    /\ hbPc' = [hbPc EXCEPT ![i] = "new"]
    /\ joinCalls' = joinCalls \cup {i}
    /\ pvJoin' = [pvJoin EXCEPT ![i] = "ok"]
    /\ hbStop' = [hbStop EXCEPT ![i] = TRUE]
    /\ pvPc' = [pvPc EXCEPT ![i] = "await_hb"]
    /\ ready' = Append(Tail(ready), T("hb", i))
    /\ UNCHANGED exceptServer
    /\ UNCHANGED <<pyInline, dispatchCalls, phase, mainPc, server, shutdownRequested, nWrites, frames, pwPc, htPc,
                   htResult, nDirect, pvRid, beats, mustCancel, pending, handlerRuns, startCalls>>

\* The same, where connect_and_get_ip raises without suspending (the nmcli
\* binary cannot be executed): the lock is released on the way out and the
\* finally block cancels the heartbeat task and awaits it.
PvBeginJoinRaises(i) ==
    /\ Running(T("pv", i)) /\ pvPc[i] = "new"
    /\ ~Locked
    /\ lockHolder' = 0
    /\ Publish(response_status(pvRid[i], CODE_IN_PROGRESS, "Connecting", FALSE), "pv", i)
    /\ hbPc' = [hbPc EXCEPT ![i] = "new"]
    /\ joinCalls' = joinCalls \cup {i}
    /\ pvJoin' = [pvJoin EXCEPT ![i] = "raise"]
    /\ hbStop' = [hbStop EXCEPT ![i] = TRUE]
    /\ mustCancel' = mustCancel \cup {T("hb", i)}
    /\ pvPc' = [pvPc EXCEPT ![i] = "fin_hb"]
    /\ ready' = Append(Tail(ready), T("hb", i))
    /\ UNCHANGED exceptServer
    /\ UNCHANGED <<pyInline, dispatchCalls, phase, mainPc, server, shutdownRequested, nWrites, frames, pwPc, htPc,
                   htResult, nDirect, pvRid, beats, pending, handlerRuns, startCalls>>

\* connect_and_get_ip finishes after its I/O: success, failure or an exception.
JoinFinish(i, outcome) ==
    /\ pvPc[i] = "join"
    /\ pvJoin' = [pvJoin EXCEPT ![i] = outcome]
    /\ pvPc' = [pvPc EXCEPT ![i] = "joined"]
    /\ ready' = Append(ready, T("pv", i))
    /\ NoPublish
    /\ UNCHANGED exceptServer
    /\ UNCHANGED <<pyInline, dispatchCalls, phase, mainPc, server, shutdownRequested, nWrites, frames, pwPc, htPc,
                   htResult, nDirect, pvRid, hbPc, hbStop, beats, mustCancel, lockHolder, pending,
                   joinCalls, handlerRuns, startCalls>>

\* Lines 233-264 and the finally block, run when the heartbeat task is done.
PvConclude(i) ==
    /\ Publish(FinalResponse(i), "pv", i)
    /\ lockHolder' = 0
    /\ pending' = FALSE
    /\ pvPc' = [pvPc EXCEPT ![i] = "done"]

\* Lines 233-236: the join returned; stop the heartbeat and await its task.
PvJoinReturned(i) ==
    /\ Running(T("pv", i)) /\ pvPc[i] = "joined"
    /\ pvJoin[i] \in {"ok", "fail"}
    /\ hbStop' = [hbStop EXCEPT ![i] = TRUE]
    /\ ready' = Tail(ready)
    /\ IF hbPc[i] = "done"
         THEN PvConclude(i)
         ELSE /\ pvPc' = [pvPc EXCEPT ![i] = "await_hb"]
              /\ NoPublish
              /\ UNCHANGED <<lockHolder, pending>>
    /\ UNCHANGED exceptServer
    /\ UNCHANGED <<pyInline, dispatchCalls, phase, mainPc, server, shutdownRequested, nWrites, frames, pwPc, htPc,
                   htResult, nDirect, pvRid, pvJoin, hbPc, beats, mustCancel, joinCalls,
                   handlerRuns, startCalls>>

\* The await of connect_and_get_ip raised (an exception of the join, or the
\* cancellation of the task): the lock is released by the async with, the
\* finally block cancels the heartbeat task and awaits it.
PvJoinRaised(i) ==
    /\ Running(T("pv", i)) /\ pvPc[i] = "joined"
    /\ pvJoin[i] \in {"raise", "cancel"}
    /\ lockHolder' = 0
    /\ hbStop' = [hbStop EXCEPT ![i] = TRUE]
    /\ NoPublish
    /\ IF hbPc[i] = "done"
         THEN /\ pending' = FALSE
              /\ pvPc' = [pvPc EXCEPT ![i] = "done"]
              /\ ready' = Tail(ready)
              /\ UNCHANGED <<hbPc, mustCancel>>
         ELSE /\ pvPc' = [pvPc EXCEPT ![i] = "fin_hb"]
              /\ mustCancel' = mustCancel \cup {T("hb", i)}
              /\ hbPc' = [hbPc EXCEPT ![i] = IF @ = "sleep" THEN "woken" ELSE @]
              /\ ready' = IF hbPc[i] = "sleep" THEN Append(Tail(ready), T("hb", i)) ELSE Tail(ready)
              /\ UNCHANGED pending
    /\ UNCHANGED exceptServer
    /\ UNCHANGED <<pyInline, dispatchCalls, phase, mainPc, server, shutdownRequested, nWrites, frames, pwPc, htPc,
                   htResult, nDirect, pvRid, pvJoin, beats, joinCalls, handlerRuns, startCalls>>

\* Lines 237-264 after the awaited heartbeat task is done: the final
\* response, the release of the lock and the finally block.
PvFinal(i) ==
    /\ ready # <<>> /\ Head(ready) = T("pv", i) /\ pvPc[i] = "await_hb"
    /\ PvConclude(i)
    /\ ready' = Tail(ready)
    /\ UNCHANGED exceptServer
    /\ UNCHANGED <<pyInline, dispatchCalls, phase, mainPc, server, shutdownRequested, nWrites, frames, pwPc, htPc,
                   htResult, nDirect, pvRid, pvJoin, hbPc, hbStop, beats, mustCancel, joinCalls,
                   handlerRuns, startCalls>>

\* Lines 270-272: the cancelled heartbeat task is done, the flag is cleared
\* and the exception leaves the task.
PvCleanup(i) ==
    /\ ready # <<>> /\ Head(ready) = T("pv", i) /\ pvPc[i] = "fin_hb"
    /\ pending' = FALSE
    /\ pvPc' = [pvPc EXCEPT ![i] = "done"]
    /\ ready' = Tail(ready)
    /\ NoPublish
    /\ UNCHANGED exceptServer
    /\ UNCHANGED <<pyInline, dispatchCalls, phase, mainPc, server, shutdownRequested, nWrites, frames, pwPc, htPc,
                   htResult, nDirect, pvRid, pvJoin, hbPc, hbStop, beats, mustCancel, lockHolder,
                   joinCalls, handlerRuns, startCalls>>

\* _provision_heartbeat, first step: leave when stopped, else sleep.
HbStart(i) ==
    /\ Running(T("hb", i)) /\ hbPc[i] = "new"
    /\ hbPc' = [hbPc EXCEPT ![i] = IF hbStop[i] THEN "done" ELSE "sleep"]
    /\ ready' = IF hbStop[i] THEN WakeAwaiter(i, Tail(ready)) ELSE Tail(ready)
    /\ NoPublish
    /\ UNCHANGED exceptServer
    /\ UNCHANGED <<pyInline, dispatchCalls, phase, mainPc, server, shutdownRequested, nWrites, frames, pwPc, htPc,
                   htResult, nDirect, pvPc, pvRid, pvJoin, hbStop, beats, mustCancel, lockHolder,
                   pending, joinCalls, handlerRuns, startCalls>>

\* The one second sleep of the heartbeat elapses.
TimerFire(i) ==
    /\ hbPc[i] = "sleep"
    /\ hbStop[i] \/ beats < MaxBeats
    /\ hbPc' = [hbPc EXCEPT ![i] = "woken"]
    /\ ready' = Append(ready, T("hb", i))
    /\ NoPublish
    /\ UNCHANGED exceptServer
    /\ UNCHANGED <<pyInline, dispatchCalls, phase, mainPc, server, shutdownRequested, nWrites, frames, pwPc, htPc,
                   htResult, nDirect, pvPc, pvRid, pvJoin, hbStop, beats, mustCancel, lockHolder,
                   pending, joinCalls, handlerRuns, startCalls>>

\* Variant: the heartbeat does not look at the stop event after its sleep.
HbBeatIgnoresStop(i) ==
    /\ Running(T("hb", i)) /\ hbPc[i] = "woken"
    /\ Publish(response_status(pvRid[i], CODE_IN_PROGRESS, "Connecting (Ns)", FALSE), "hb", i)
    /\ beats' = beats + 1
    /\ hbPc' = [hbPc EXCEPT ![i] = "sleep"]
    /\ ready' = Tail(ready)
    /\ UNCHANGED exceptServer
    /\ UNCHANGED <<pyInline, dispatchCalls, phase, mainPc, server, shutdownRequested, nWrites, frames, pwPc, htPc,
                   htResult, nDirect, pvPc, pvRid, pvJoin, hbStop, mustCancel, lockHolder, pending,
                   joinCalls, handlerRuns, startCalls>>

\* _provision_heartbeat after the sleep: leave when stopped, else publish
\* the elapsed time and sleep again.
HbBeat(i) ==
    /\ Running(T("hb", i)) /\ hbPc[i] = "woken"
    /\ ~hbStop[i]
    /\ Publish(response_status(pvRid[i], CODE_IN_PROGRESS, "Connecting (Ns)", FALSE), "hb", i)
    /\ beats' = beats + 1
    /\ hbPc' = [hbPc EXCEPT ![i] = "sleep"]
    /\ ready' = Tail(ready)
    /\ UNCHANGED exceptServer
    /\ UNCHANGED <<pyInline, dispatchCalls, phase, mainPc, server, shutdownRequested, nWrites, frames, pwPc, htPc,
                   htResult, nDirect, pvPc, pvRid, pvJoin, hbStop, mustCancel, lockHolder, pending,
                   joinCalls, handlerRuns, startCalls>>

HbLeave(i) ==
    /\ Running(T("hb", i)) /\ hbPc[i] = "woken"
    /\ hbStop[i]
    /\ hbPc' = [hbPc EXCEPT ![i] = "done"]
    /\ ready' = WakeAwaiter(i, Tail(ready))
    /\ NoPublish
    /\ UNCHANGED exceptServer
    /\ UNCHANGED <<pyInline, dispatchCalls, phase, mainPc, server, shutdownRequested, nWrites, frames, pwPc, htPc,
                   htResult, nDirect, pvPc, pvRid, pvJoin, hbStop, beats, mustCancel, lockHolder,
                   pending, joinCalls, handlerRuns, startCalls>>

\* A cancelled heartbeat task ends at its next step without publishing.
HbCancelled(i) ==
    /\ ready # <<>> /\ Head(ready) = T("hb", i) /\ T("hb", i) \in mustCancel
    /\ hbPc' = [hbPc EXCEPT ![i] = "done"]
    /\ mustCancel' = mustCancel \ {T("hb", i)}
    /\ ready' = WakeAwaiter(i, Tail(ready))
    /\ NoPublish
    /\ UNCHANGED exceptServer
    /\ UNCHANGED <<pyInline, dispatchCalls, phase, mainPc, server, shutdownRequested, nWrites, frames, pwPc, htPc,
                   htResult, nDirect, pvPc, pvRid, pvJoin, hbStop, beats, lockHolder, pending,
                   joinCalls, handlerRuns, startCalls>>


(***************************************************************************)
(* Shutdown: start() returns when the event is set, stop() detaches the    *)
(* transport, and asyncio.run cancels the tasks that are left.             *)
(***************************************************************************)
\* main() resumes from _shutdown_requested.wait(); stop() sets self.server
\* to None and waits for the BLE stack to stop.
MainWake ==
    /\ Running(MainTask) /\ mainPc = "ready"
    /\ server' = FALSE
    /\ mainPc' = "stopping"
    /\ ready' = Tail(ready)
    /\ NoPublish
    /\ UNCHANGED exceptServer
    /\ UNCHANGED <<pyInline, dispatchCalls, phase, shutdownRequested, nWrites, frames, pwPc, htPc, htResult,
                   nDirect, pvPc, pvRid, pvJoin, hbPc, hbStop, beats, mustCancel, lockHolder,
                   pending, joinCalls, handlerRuns, startCalls>>

\* The BLE stack has stopped.
StopFinish ==
    /\ mainPc = "stopping"
    /\ mainPc' = "stopped"
    /\ ready' = Append(ready, MainTask)
    /\ NoPublish
    /\ UNCHANGED exceptServer
    /\ UNCHANGED <<pyInline, dispatchCalls, phase, server, shutdownRequested, nWrites, frames, pwPc, htPc,
                   htResult, nDirect, pvPc, pvRid, pvJoin, hbPc, hbStop, beats, mustCancel,
                   lockHolder, pending, joinCalls, handlerRuns, startCalls>>

\* stop() and main() return; the done callback of run_until_complete is
\* scheduled behind whatever is ready by then.
MainReturn ==
    /\ Running(MainTask) /\ mainPc = "stopped"
    /\ mainPc' = "done"
    /\ ready' = Append(Tail(ready), StopLoop)
    /\ NoPublish
    /\ UNCHANGED exceptServer
    /\ UNCHANGED <<pyInline, dispatchCalls, phase, server, shutdownRequested, nWrites, frames, pwPc, htPc,
                   htResult, nDirect, pvPc, pvRid, pvJoin, hbPc, hbStop, beats, mustCancel,
                   lockHolder, pending, joinCalls, handlerRuns, startCalls>>

\* The orders in which the tasks of a set can be woken.
Orders(S) ==
    {q \in [1..Cardinality(S) -> S] : \A x, y \in 1..Cardinality(S) : x # y => q[x] # q[y]}

\* The loop stops and asyncio.run cancels every task that is left.  A task
\* waiting for I/O or a timer is woken with CancelledError, a task
\* that is already scheduled gets it at its next step; an attempt awaiting
\* its heartbeat task passes the cancellation on to that task.
CancelAll ==
    LET woken == {T("pv", i) : i \in {j \in Attempts : pvPc[j] = "join"}}
                   \cup {T("hb", i) : i \in {j \in Attempts : hbPc[j] = "sleep"}}
    IN /\ phase = "run"
       /\ Running(StopLoop)
       /\ phase' = "teardown"
       /\ mustCancel' = mustCancel
            \cup {T("pw", i) : i \in {j \in Writes : pwPc[j] = "new"}}
            \cup {T("ht", i) : i \in {j \in Writes : htPc[j] = "new"}}
            \cup {T("pv", i) : i \in {j \in Attempts : pvPc[j] = "new"}}
            \cup {T("hb", i) : i \in {j \in Attempts : hbPc[j] \in {"new", "sleep", "woken"}}}
       /\ hbPc' = [i \in Attempts |-> IF hbPc[i] = "sleep" THEN "woken" ELSE hbPc[i]]
       /\ pvPc' = [i \in Attempts |-> IF pvPc[i] = "join" THEN "joined" ELSE pvPc[i]]
       /\ pvJoin' = [i \in Attempts |-> IF pvPc[i] \in {"join", "joined"} THEN "cancel" ELSE pvJoin[i]]
       /\ \E order \in Orders(woken) : ready' = Tail(ready) \o order
       /\ NoPublish
       /\ UNCHANGED exceptServer
       /\ UNCHANGED <<pyInline, dispatchCalls, mainPc, server, shutdownRequested, nWrites, frames, pwPc, htPc,
                      htResult, nDirect, pvRid, hbStop, beats, lockHolder, pending, joinCalls,
                      handlerRuns, startCalls>>

\* A task cancelled before its first step never runs its coroutine body.
PwCancelled(i) ==
    /\ ready # <<>> /\ Head(ready) = T("pw", i) /\ T("pw", i) \in mustCancel
    /\ pwPc' = [pwPc EXCEPT ![i] = "done"]
    /\ frames' = [frames EXCEPT ![i] = NoFrame]
    /\ mustCancel' = mustCancel \ {T("pw", i)}
    /\ ready' = Tail(ready)
    /\ NoPublish
    /\ UNCHANGED exceptServer
    /\ UNCHANGED <<pyInline, dispatchCalls, phase, mainPc, server, shutdownRequested, nWrites, htPc, htResult,
                   nDirect, pvPc, pvRid, pvJoin, hbPc, hbStop, beats, lockHolder, pending,
                   joinCalls, handlerRuns, startCalls>>

\* The cancelled handler task ends, and with it the _process_write task
\* waiting for it: no handler runs and no response is published.
HtCancelled(i) ==
    /\ ready # <<>> /\ Head(ready) = T("ht", i) /\ T("ht", i) \in mustCancel
    /\ htPc' = [htPc EXCEPT ![i] = "done"]
    /\ pwPc' = [pwPc EXCEPT ![i] = "done"]
    /\ frames' = [frames EXCEPT ![i] = NoFrame]
    /\ mustCancel' = mustCancel \ {T("ht", i)}
    /\ ready' = Tail(ready)
    /\ NoPublish
    /\ UNCHANGED exceptServer
    /\ UNCHANGED <<pyInline, dispatchCalls, phase, mainPc, server, shutdownRequested, nWrites, htResult, nDirect,
                   pvPc, pvRid, pvJoin, hbPc, hbStop, beats, lockHolder, pending, joinCalls,
                   handlerRuns, startCalls>>

\* The cancelled _provision_wifi task never enters its try block, so its
\* finally block does not run either.
PvCancelled(i) ==
    /\ ready # <<>> /\ Head(ready) = T("pv", i) /\ T("pv", i) \in mustCancel
    /\ pvPc' = [pvPc EXCEPT ![i] = "done"]
    /\ mustCancel' = mustCancel \ {T("pv", i)}
    /\ ready' = Tail(ready)
    /\ NoPublish
    /\ UNCHANGED exceptServer
    /\ UNCHANGED <<pyInline, dispatchCalls, phase, mainPc, server, shutdownRequested, nWrites, frames, pwPc, htPc,
                   htResult, nDirect, pvRid, pvJoin, hbPc, hbStop, beats, lockHolder, pending,
                   joinCalls, handlerRuns, startCalls>>

\* _provision_wifi called directly, as the unit test of the BUSY branch does.
DirectProvision(rid) ==
    LET j == MaxWrites + nDirect + 1 IN
    /\ phase = "run"
    /\ nDirect < MaxDirect
    /\ nDirect' = nDirect + 1
    /\ pvPc' = [pvPc EXCEPT ![j] = "new"]
    /\ pvRid' = [pvRid EXCEPT ![j] = rid]
    /\ ready' = Append(ready, T("pv", j))
    /\ NoPublish
    /\ UNCHANGED exceptServer
    /\ UNCHANGED <<pyInline, dispatchCalls, phase, mainPc, server, shutdownRequested, nWrites, frames, pwPc, htPc,
                   htResult, pvJoin, hbPc, hbStop, beats, mustCancel, lockHolder, pending,
                   joinCalls, handlerRuns, startCalls>>

(***************************************************************************)
(* commands/registry.py and commands/runtime.py: dispatch with a handler   *)
(* of arbitrary behaviour.  What wait_for hands back is a return of the    *)
(* handler or an exception, the handler's own or the TimeoutError of an    *)
(* expired timeout.                                                        *)
(***************************************************************************)
HandlerReturns == [kind |-> "return", cls |-> ""]
HandlerRaises(cls) == [kind |-> "raise", cls |-> cls]

\* Exceptions a handler can raise.  TimeoutError is an Exception,
\* CancelledError a BaseException that is no Exception.
ExceptionClasses == {"ValueError", "TimeoutError", "CancelledError"}

IsTimeoutError(cls) == cls = "TimeoutError"
IsException(cls) == cls \in {"ValueError", "TimeoutError"}

\* CommandRuntime.run around the awaited wait_for: the response returned
\* or the exception left uncaught, and the number of logger calls.
run(request_id, awaited) ==
    IF awaited.kind = "return"
        THEN [raised |-> "", resp |-> response_ok(request_id, "done"), logged |-> 0]
    ELSE IF IsTimeoutError(awaited.cls)
        THEN [raised |-> "", resp |-> response_error(request_id, CODE_TIMEOUT, "Command timeout"),
              logged |-> 0]
    ELSE IF IsException(awaited.cls)
        THEN [raised |-> "", resp |-> response_error(request_id, CODE_INTERNAL_ERROR, awaited.cls),
              logged |-> 1]
    ELSE [raised |-> awaited.cls, resp |-> NoResponse, logged |-> 0]

\* A dispatch call ends: what the handler did and what the caller got.
Returned(request_id, did, result) ==
    rtOut' = Append(rtOut, [rid |-> request_id, did |-> did, result |-> result])

\* CommandDispatcher.dispatch: an unknown command and invalid arguments are
\* answered at once; else the handler is called under wait_for and returns,
\* raises, or suspends.
dispatch(request_id, cmd, behaviour) ==
    LET req == [err |-> FALSE, code |-> CODE_OK, rid |-> request_id, cmd |-> cmd,
                ssid |-> ArgAbsent, pwd |-> ArgAbsent]
        unrun(code) == [raised |-> "", resp |-> response_error(request_id, code, "error"), logged |-> 0]
    IN /\ rtPc = "idle"
       /\ rtCalls < MaxCalls
       /\ rtCalls' = rtCalls + 1
       /\ IF DispatchCheck(req) = "unknown"
            THEN /\ Returned(request_id, [kind |-> "unknown", cls |-> ""], unrun(CODE_UNKNOWN_COMMAND))
                 /\ UNCHANGED <<rtPc, rtReq>>
          ELSE IF DispatchCheck(req) = "bad_request"
            THEN /\ Returned(request_id, [kind |-> "invalid", cls |-> ""], unrun(CODE_BAD_REQUEST))
                 /\ UNCHANGED <<rtPc, rtReq>>
          ELSE IF behaviour.kind = "suspend"
            THEN /\ rtPc' = "waiting"
                 /\ rtReq' = request_id
                 /\ UNCHANGED rtOut
          ELSE /\ Returned(request_id, behaviour, run(request_id, behaviour))
               /\ UNCHANGED <<rtPc, rtReq>>
       /\ UNCHANGED exceptRuntime

\* The suspended handler returns or raises before the timeout.
HandlerFinishes(awaited) ==
    /\ rtPc = "waiting"
    /\ Returned(rtReq, awaited, run(rtReq, awaited))
    /\ rtPc' = "idle"
    /\ rtReq' = ""
    /\ UNCHANGED rtCalls
    /\ UNCHANGED exceptRuntime

\* spec.timeout_sec elapses first: wait_for cancels the handler and raises
\* TimeoutError.
TimeoutExpires ==
    /\ rtPc = "waiting"
    /\ Returned(rtReq, [kind |-> "exceeded", cls |-> ""], run(rtReq, HandlerRaises("TimeoutError")))
    /\ rtPc' = "idle"
    /\ rtReq' = ""
    /\ UNCHANGED rtCalls
    /\ UNCHANGED exceptRuntime

Behaviours ==
    {HandlerReturns, [kind |-> "suspend", cls |-> ""]} \cup {HandlerRaises(c) : c \in ExceptionClasses}

\* ---------------------------------------------------------------------
\* ResponsePublisher._chunk_response_if_needed and encode_response
\* ---------------------------------------------------------------------
MaxText == 24
RefineRounds == 8

PROTOCOL_VERSION == "YundroneBT-V1.0.0"

\* A text is a sequence of characters.  json.dumps(ensure_ascii=False)
\* followed by UTF-8 writes an ASCII letter as 1 byte, an escaped quote as
\* 2, a CJK character as 3, an emoji as 4 and a control character as the
\* 6 bytes of its \u escape.
CharBytes == [a |-> 1, quote |-> 2, cjk |-> 3, emoji |-> 4, ctrl |-> 6]

RECURSIVE TextBytes(_)
TextBytes(text) == IF text = <<>> THEN 0 ELSE CharBytes[Head(text)] + TextBytes(Tail(text))

RECURSIVE Digits(_)
Digits(n) == IF n < 10 THEN 1 ELSE 1 + Digits(n \div 10)

\* CommandResponse.data: None, or a dict whose items keep insertion order.
\* An item is a literal such as "final": true, or the chunk metadata.
DataNone == [none |-> TRUE, items |-> <<>>]
Dict(items) == [none |-> FALSE, items |-> items]
Item(key, lit) == [key |-> key, lit |-> lit, index |-> 0, total |-> 0]
ChunkItem(index, total) == [key |-> "chunk", lit |-> "", index |-> index, total |-> total]

CommandResponse(request_id, ok, code, text, data) ==
    [request_id |-> request_id, ok |-> ok, code |-> code, text |-> text, data |-> data]

\* "key": literal, or "chunk": {"index": i, "total": t}
ItemBytes(it) ==
    IF it.key = "chunk" THEN 31 + Digits(it.index) + Digits(it.total)
    ELSE Len(it.key) + 4 + Len(it.lit)

RECURSIVE ItemsBytes(_)
ItemsBytes(items) ==
    IF items = <<>> THEN 0
    ELSE ItemBytes(Head(items)) + (IF Len(items) > 1 THEN 2 ELSE 0) + ItemsBytes(Tail(items))

\* , "data": {...}
DataBytes(data) == IF data.none THEN 0 ELSE 12 + ItemsBytes(data.items)

\* encode_response: the JSON object written by json.dumps and its length
\* in bytes.
encode_response(response) ==
    [id |-> response.request_id, ok |-> response.ok, code |-> response.code,
     text |-> response.text, v |-> PROTOCOL_VERSION, data |-> response.data,
     len |-> 51 + Len(response.request_id) + (IF response.ok THEN 4 ELSE 5) + Len(response.code)
               + TextBytes(response.text) + Len(PROTOCOL_VERSION) + DataBytes(response.data)]

\* chunk_data = dict(data); chunk_data["chunk"] = {...}
WithChunk(items, index, total) ==
    IF \E k \in 1..Len(items) : items[k].key = "chunk"
    THEN [k \in 1..Len(items) |-> IF items[k].key = "chunk" THEN ChunkItem(index, total) ELSE items[k]]
    ELSE Append(items, ChunkItem(index, total))

_build(response, text, index, total) ==
    CommandResponse(response.request_id, response.ok, response.code, text,
                    Dict(WithChunk(response.data.items, index, total)))

\* Variant: the slice stops one character early.
SliceShort(base, start, mid) == SubSeq(base, start + 1, mid - 1)

\* base[start:mid]
Slice(base, start, mid) == SubSeq(base, start + 1, mid)

\* The binary search for the longest base[start:mid] whose frame fits.
RECURSIVE BestEnd(_, _, _, _, _, _, _)
BestEnd(response, max_bytes, total_hint, start, low, high, best) ==
    IF low > high THEN best
    ELSE LET mid == (low + high) \div 2
             test == _build(response, Slice(response.text, start, mid), total_hint, total_hint)
         IN IF encode_response(test).len <= max_bytes
            THEN BestEnd(response, max_bytes, total_hint, start, mid + 1, high, mid)
            ELSE BestEnd(response, max_bytes, total_hint, start, low, mid - 1, best)

RECURSIVE SplitFrom(_, _, _, _, _)
SplitFrom(response, max_bytes, total_hint, start, chunks_local) ==
    IF start >= Len(response.text) THEN chunks_local
    ELSE LET found == BestEnd(response, max_bytes, total_hint, start, start + 1, Len(response.text), start)
             best == IF found = start THEN start + 1 ELSE found
         IN SplitFrom(response, max_bytes, total_hint, best,
                      Append(chunks_local, Slice(response.text, start, best)))

_split_with_total_hint(response, max_bytes, total_hint) ==
    SplitFrom(response, max_bytes, total_hint, 0, <<>>)

\* Variant: the first split is kept.
RefineNever(response, max_bytes, chunks, rounds) == chunks

\* Variant: when the passes run out without a stable count, nothing is kept.
RECURSIVE RefineFails(_, _, _, _)
RefineFails(response, max_bytes, chunks, rounds) ==
    IF rounds = 0 THEN <<>>
    ELSE LET refined == _split_with_total_hint(response, max_bytes, Len(chunks))
         IN IF Len(refined) = Len(chunks) THEN refined
            ELSE RefineFails(response, max_bytes, refined, rounds - 1)

\* for _ in range(8): re-split until the number of chunks is stable.
RECURSIVE Refine(_, _, _, _)
Refine(response, max_bytes, chunks, rounds) ==
    IF rounds = 0 THEN chunks
    ELSE LET refined == _split_with_total_hint(response, max_bytes, Len(chunks))
         IN IF Len(refined) = Len(chunks) THEN refined
            ELSE Refine(response, max_bytes, refined, rounds - 1)

\* Variant: every response is cut into chunks.
_chunk_response_always(response, max_bytes) ==
    LET chunks == Refine(response, max_bytes, _split_with_total_hint(response, max_bytes, 1), RefineRounds)
    IN [idx \in 1..Len(chunks) |-> encode_response(_build(response, chunks[idx], idx, Len(chunks)))]

\* The payloads _chunk_response_if_needed yields, in order.
_chunk_response_if_needed(response, max_bytes) ==
    IF encode_response(response).len <= max_bytes THEN <<encode_response(response)>>
    ELSE LET chunks == Refine(response, max_bytes, _split_with_total_hint(response, max_bytes, 1),
                              RefineRounds)
             total == Len(chunks)
         IN [idx \in 1..total |-> encode_response(_build(response, chunks[idx], idx, total))]

\* The inputs: texts of up to MaxText characters, of one repeated
\* character or of a repeating group; with and without data; limits from
\* one byte to the limit the server uses.
TextPatterns == {<<"ctrl">>, <<"ctrl", "a">>, <<"a", "quote", "cjk", "emoji">>}
TextOf(len, pat) == [i \in 1..len |-> pat[((i - 1) % Len(pat)) + 1]]
SplitTexts == {TextOf(len, pat) : len \in 0..MaxText, pat \in TextPatterns}
SplitData == {DataNone, Dict(<<Item("final", "true")>>)}
SplitResponses ==
    {CommandResponse("a", TRUE, CODE_OK, text, data) : text \in SplitTexts, data \in SplitData}
        \cup {CommandResponse("b", FALSE, CODE_PROVISION_FAIL, text, Dict(<<Item("final", "true")>>)) :
                 text \in {TextOf(len, <<"ctrl", "a">>) : len \in 0..MaxText}}
MAX_BLE_PAYLOAD_BYTES == 360
MaxBytesChoices == {1, 125, 126, 132, 134, 141, 147, 149, 157, MAX_BLE_PAYLOAD_BYTES}

InitSplitter ==
    /\ InitProgram
    /\ ClientIdle
    /\ WriterIdle
    /\ CodecIdle
    /\ PublisherIdle
    /\ LinkIdle
    /\ splPc = "new"
    /\ splResponse \in SplitResponses
    /\ splMaxBytes \in MaxBytesChoices
    /\ splOut = <<>>

\* payloads = list(self._chunk_response_if_needed(response, max_bytes))
ChunkResponse ==
    /\ splPc = "new"
    /\ splOut' = _chunk_response_if_needed(splResponse, splMaxBytes)
    /\ splPc' = "done"
    /\ UNCHANGED <<splResponse, splMaxBytes>>
    /\ UNCHANGED exceptSplitter

\* ---------------------------------------------------------------------
\* client/command_client.py: wait_response and wait_status
\* ---------------------------------------------------------------------
MaxPolls == 5
MaxStatusPolls == 12
MaxChunk == 3

\* Time is counted in fifths of a second, the length of asyncio.sleep(0.2).
TicksPerSecond == 5
ReadTimeoutTicks == 25
max_read_errors == 5

AwaitedId == "A"

\* What a read of the characteristic gives: a frame parse_response accepts,
\* bytes it refuses, a read that timed out, or a read that failed.
ClFrame(id, ok, code, text, index, total, final) ==
    [kind |-> "frame", id |-> id, ok |-> ok, code |-> code, text |-> text,
     index |-> index, total |-> total, final |-> final]
ReadInvalid == [NoRead EXCEPT !.kind = "invalid"]
ReadTimeout == [NoRead EXCEPT !.kind = "timeout"]
ReadError == [NoRead EXCEPT !.kind = "error"]

\* data.chunk is a dict
HasChunkKey(frame) == frame.index # 0 \/ frame.total # 0

\* The text of a fragment: its index and which of two contents it has.
IndexNames == <<"1", "2", "3", "4", "5", "6", "7", "8", "9">>
ChunkText(index, v) == <<IndexNames[index] \o v>>

\* Frames read by wait_response: fragments of any index and total for the
\* awaited id; fragments with a second content; the last fragment of a
\* response with data; fragments and a whole response for another id; a
\* whole response for the awaited id; a fragment with index 0.
WrFrames ==
    {ClFrame(AwaitedId, TRUE, CODE_OK, ChunkText(i, "a"), i, t, "absent") :
        i \in 1..MaxChunk, t \in 1..MaxChunk}
    \cup {ClFrame(AwaitedId, TRUE, CODE_OK, ChunkText(i, "b"), i, MaxChunk, "absent") : i \in 1..MaxChunk}
    \cup {ClFrame("B", TRUE, CODE_OK, ChunkText(i, "x"), i, MaxChunk, "absent") : i \in 1..MaxChunk}
    \cup {ClFrame(AwaitedId, FALSE, CODE_PROVISION_FAIL, ChunkText(MaxChunk, "a"), MaxChunk, MaxChunk, "true"),
          ClFrame("B", TRUE, CODE_OK, <<"stale">>, 0, 0, "absent"),
          ClFrame(AwaitedId, TRUE, CODE_OK, <<"pong">>, 0, 0, "absent"),
          ClFrame(AwaitedId, TRUE, CODE_OK, ChunkText(1, "a"), 0, 1, "absent")}

\* A text is a sequence of pieces.  The piece "x90" stands for a run of 90
\* characters without blank or line break, "nl" for a line break; any other
\* piece is the characters it is written with.
PieceLen(piece) == IF piece = "x90" THEN 90 ELSE IF piece = "nl" THEN 1 ELSE Len(piece)

RECURSIVE TextLen(_)
TextLen(text) == IF text = <<>> THEN 0 ELSE PieceLen(Head(text)) + TextLen(Tail(text))

\* Status texts of exactly 90 characters, of 91, and of two lines.
LongStatuses == {<<"x90">>, <<"x90", "y">>, <<"s1", "nl", "s2">>}

\* Frames read by wait_status: status updates of two texts and a blank one,
\* final and not, outcomes with and without final, for the awaited id and
\* for another; status updates with a long text and with two lines.
WsFrames ==
    {ClFrame(AwaitedId, TRUE, CODE_IN_PROGRESS, <<t>>, 0, 0, f) : t \in {"s1", "s2"}, f \in {"absent", "false"}}
    \cup {ClFrame(AwaitedId, TRUE, c, <<"ip">>, 0, 0, f) :
            c \in {CODE_PROVISION_SUCCESS, CODE_BUSY}, f \in {"absent", "false", "true"}}
    \cup {ClFrame(AwaitedId, FALSE, CODE_PROVISION_FAIL, <<"no">>, 0, 0, f) : f \in {"false", "true"}}
    \cup {ClFrame(AwaitedId, TRUE, CODE_IN_PROGRESS, <<"s1">>, 0, 0, "true"),
          ClFrame(AwaitedId, TRUE, CODE_OK, <<" ">>, 0, 0, "true"),
          ClFrame("B", TRUE, CODE_PROVISION_SUCCESS, <<"ip">>, 0, 0, "true"),
          ClFrame("B", TRUE, CODE_IN_PROGRESS, <<"s2">>, 0, 0, "false")}
    \cup {ClFrame(AwaitedId, TRUE, CODE_IN_PROGRESS, t, 0, 0, "false") : t \in LongStatuses}

\* A peer that never completes a response: fragments of ever new indices
\* of a total that is not reached, followed for MaxStallPolls iterations.
MaxStall == 7
MaxStallPolls == 15
StallTotal == MaxStall + 1
StallFrames ==
    {ClFrame(AwaitedId, TRUE, CODE_OK, ChunkText(i, "a"), i, StallTotal, "absent") : i \in 1..MaxStall}

\* A peer that sends a new heartbeat text with every read.
HeartbeatFrames ==
    {ClFrame(AwaitedId, TRUE, CODE_IN_PROGRESS, <<t>>, 0, 0, "false") : t \in {"s1", "s2"}}

\* The iterations of wait_response that are followed.
WrPollLimit == IF total_chunks = StallTotal THEN MaxStallPolls ELSE MaxPolls

\* Variant: every frame is taken for the awaited request.
MatchesAny(read) == TRUE

\* response.request_id == request_id
Matches(read) == read.id = AwaitedId

\* bool((response.data or {}).get("final", False))
IsFinal(read) == read.final = "true"

Reads(fs) == fs \cup {ReadInvalid, ReadTimeout, ReadError}

Waiting(call) == clCall = call /\ clResult.kind = "waiting"
Returns(kind, code, why, response) == [kind |-> kind, code |-> code, why |-> why, response |-> response]

\* sleep, then read_gatt_char under wait_for
AfterRead(sleep, read) == clNow + sleep + (IF read.kind = "timeout" THEN ReadTimeoutTicks ELSE 0)

\* "".join(chunks[i] for i in range(1, total_chunks + 1) if i in chunks)
RECURSIVE JoinChunks(_, _, _)
JoinChunks(buffer, i, total) ==
    IF i > total THEN <<>>
    ELSE (IF i \in DOMAIN buffer THEN buffer[i] ELSE <<>>) \o JoinChunks(buffer, i + 1, total)

\* wait_response: time.monotonic() - last_chunk_time > timeout
WrExpired == clNow - last_chunk_time > clTimeout * TicksPerSecond

WrGiveUp ==
    /\ Waiting("wait_response")
    /\ WrExpired
    /\ clResult' = Returns("none", "", "timeout", NoRead)
    /\ UNCHANGED <<clCall, clTimeout, clNow, clPolls, clRead, rx_chunks, total_chunks, last_chunk_time,
                   read_errors, last_progress, last_status, last_signature>>
    /\ UNCHANGED exceptClient

\* One iteration of the loop of wait_response.
WrPoll(read) ==
    /\ Waiting("wait_response")
    /\ ~WrExpired
    /\ clPolls < WrPollLimit
    /\ clPolls' = clPolls + 1
    /\ clNow' = AfterRead(1, read)
    /\ clRead' = read
    /\ IF read.kind = "error" THEN
            /\ clResult' = Returns("raised", "", "read", NoRead)
            /\ UNCHANGED <<rx_chunks, total_chunks, last_chunk_time>>
       ELSE IF read.kind # "frame" \/ ~Matches(read) THEN
            UNCHANGED <<clResult, rx_chunks, total_chunks, last_chunk_time>>
       ELSE IF HasChunkKey(read) /\ read.index > 0 /\ read.total > 0 THEN
            LET fresh == read.index \notin DOMAIN rx_chunks
                buffer == IF fresh THEN rx_chunks @@ (read.index :> read.text) ELSE rx_chunks
            IN /\ rx_chunks' = buffer
               /\ last_chunk_time' = IF fresh THEN AfterRead(1, read) ELSE last_chunk_time
               /\ total_chunks' = read.total
               /\ clResult' = IF Cardinality(DOMAIN buffer) >= read.total
                              THEN Returns("response", "", "assembled",
                                           [read EXCEPT !.text = JoinChunks(buffer, 1, read.total),
                                                        !.index = 0, !.total = 0])
                              ELSE clResult
       ELSE /\ clResult' = Returns("response", "", "frame", read)
            /\ UNCHANGED <<rx_chunks, total_chunks, last_chunk_time>>
    /\ UNCHANGED <<clCall, clTimeout, read_errors, last_progress, last_status, last_signature>>
    /\ UNCHANGED exceptClient

\* wait_status
idle_timeout == IF clTimeout > 1 THEN clTimeout ELSE 1
Max(a, b) == IF a > b THEN a ELSE b
Min(a, b) == IF a < b THEN a ELSE b
hard_timeout == Min(Max(idle_timeout * 4, idle_timeout + 30), 180)
elapsed == clNow \div TicksPerSecond
idle_elapsed == (clNow - last_progress) \div TicksPerSecond

\* status = response.text.strip() or "<empty>"
StatusOf(text) == IF text = <<>> \/ text = <<" ">> THEN <<"<empty>">> ELSE text

\* extract_final_result: the ResultCode of the RunResult, "None" without
\* one.  For PROVISION_SUCCESS it builds RunResult(code, message, ip,
\* ssh_user); RunResult has the three fields code, message and ip, so the
\* call raises TypeError.
extract_final_result(code) ==
    IF code = CODE_PROVISION_SUCCESS THEN "TypeError"
    ELSE IF code \in {CODE_PROVISION_FAIL, CODE_BUSY} THEN "FAILED"
    ELSE "None"

\* text[:limit], for a limit that falls between two pieces
RECURSIVE TextPrefix(_, _)
TextPrefix(text, limit) ==
    IF text = <<>> \/ PieceLen(Head(text)) > limit THEN <<>>
    ELSE <<Head(text)>> \o TextPrefix(Tail(text), limit - PieceLen(Head(text)))

\* _compact_status(text, limit); the texts it is given here are stripped
\* already, so that strip() changes nothing.
_compact_status(text, limit) ==
    LET compact == [i \in DOMAIN text |-> IF text[i] = "nl" THEN " | " ELSE text[i]]
    IN IF TextLen(compact) <= limit THEN compact ELSE TextPrefix(compact, limit) \o <<"...">>

\* _compact_status(last_status, 90)
StatusLimit == 90

\* Variant: every matching frame counts as a new update.
is_new_update_always(signature) == TRUE

\* is_new_update = signature != last_signature
is_new_update(signature) == signature # last_signature

\* The two timeout returns at the top of the loop; the message of the idle
\* timeout carries the compacted last status.
WsGiveUp ==
    /\ Waiting("wait_status")
    /\ elapsed >= hard_timeout \/ idle_elapsed >= idle_timeout
    /\ clResult' = IF elapsed >= hard_timeout
                   THEN Returns("run_result", "TIMEOUT", "hard", NoRead)
                   ELSE Returns("run_result", "TIMEOUT", "idle",
                                [NoRead EXCEPT !.text = _compact_status(last_status, StatusLimit)])
    /\ UNCHANGED <<clCall, clTimeout, clNow, clPolls, clRead, rx_chunks, total_chunks, last_chunk_time,
                   read_errors, last_progress, last_status, last_signature>>
    /\ UNCHANGED exceptClient

\* One iteration of the loop of wait_status.
WsPoll(read) ==
    /\ Waiting("wait_status")
    /\ elapsed < hard_timeout /\ idle_elapsed < idle_timeout
    /\ clPolls < MaxStatusPolls
    /\ clPolls' = clPolls + 1
    /\ clNow' = AfterRead(TicksPerSecond, read)
    /\ clRead' = read
    /\ IF read.kind = "timeout" THEN
            UNCHANGED <<clResult, read_errors, last_progress, last_status, last_signature>>
       ELSE IF read.kind = "error" THEN
            /\ read_errors' = read_errors + 1
            /\ clResult' = IF read_errors + 1 >= max_read_errors
                           THEN Returns("run_result", "FAILED", "read_errors", NoRead)
                           ELSE clResult
            /\ UNCHANGED <<last_progress, last_status, last_signature>>
       ELSE /\ read_errors' = 0
            /\ IF read.kind = "invalid" \/ ~Matches(read) THEN
                    UNCHANGED <<clResult, last_progress, last_status, last_signature>>
               ELSE LET status == StatusOf(read.text)
                        final == IsFinal(read)
                        signature == <<read.code, status, final>>
                        new_update == is_new_update(signature)
                        final_result == extract_final_result(read.code)
                    IN /\ last_signature' = IF new_update THEN signature ELSE last_signature
                       /\ last_progress' = IF new_update THEN AfterRead(TicksPerSecond, read)
                                           ELSE last_progress
                       /\ last_status' = IF new_update THEN status ELSE last_status
                       /\ clResult' = IF final_result = "TypeError"
                                      THEN Returns("raised", "", "TypeError", read)
                                      ELSE IF final /\ final_result # "None"
                                      THEN Returns("run_result", final_result, "final", read)
                                      ELSE clResult
    /\ UNCHANGED <<clCall, clTimeout, rx_chunks, total_chunks, last_chunk_time>>
    /\ UNCHANGED exceptClient

InitClient ==
    /\ InitProgram
    /\ SplitterIdle
    /\ WriterIdle
    /\ CodecIdle
    /\ PublisherIdle
    /\ LinkIdle
    /\ clCall \in {"wait_response", "wait_status"}
    /\ clTimeout \in {1, 7}
    /\ ClientLocals

\* A wait with a timeout of StallTimeout seconds.
StallTimeout == 7
InitCeiling ==
    /\ InitProgram
    /\ SplitterIdle
    /\ WriterIdle
    /\ CodecIdle
    /\ PublisherIdle
    /\ LinkIdle
    /\ clCall \in {"wait_response", "wait_status"}
    /\ clTimeout = StallTimeout
    /\ ClientLocals

\* ---------------------------------------------------------------------
\* CommandDispatcher.register
\* ---------------------------------------------------------------------
MaxRegs == 4

RegNames == {CMD_PING, CMD_PROVISION, CMD_SHUTDOWN}
RegHandlers == {"h1", "h2"}

CommandSpec(name) == [name |-> name]
RegisteredCommand(spec, handler) == [spec |-> spec, handler |-> handler]
RegCall(spec, handler, raised) == [name |-> spec.name, handler |-> handler, raised |-> raised]

\* Variant: a second registration replaces the first.
registerOverwrite(spec, handler) ==
    /\ Len(regOut) < MaxRegs
    /\ _registry' = (spec.name :> RegisteredCommand(spec, handler)) @@ _registry
    /\ regOut' = Append(regOut, RegCall(spec, handler, "none"))
    /\ UNCHANGED exceptRegistry

\* CommandDispatcher.register(spec, handler).
register(spec, handler) ==
    /\ Len(regOut) < MaxRegs
    /\ IF spec.name \in DOMAIN _registry
       THEN /\ regOut' = Append(regOut, RegCall(spec, handler, "ValueError"))
            /\ UNCHANGED _registry
       ELSE /\ _registry' = _registry @@ (spec.name :> RegisteredCommand(spec, handler))
            /\ regOut' = Append(regOut, RegCall(spec, handler, "none"))
    /\ UNCHANGED exceptRegistry

\* ---------------------------------------------------------------------
\* client/ble_gatt.py: write_with_strategy and the two paths that call it
\* ---------------------------------------------------------------------
MaxGattWrites == 3

\* WriteMode
WITH_RESPONSE == "with_response"
WITH_RESPONSE_ASSUME_SENT == "with_response(assume_sent)"
WITHOUT_RESPONSE == "without_response"
WITHOUT_RESPONSE_STICKY == "without_response(sticky)"

\* How client.write_gatt_char ends: it returns, or it raises an exception
\* whose str() is a message.  A message is known by which of the three
\* texts the negotiator looks for it contains.
Marks == {"Code=14", "Unlikely error", "CBATTErrorDomain"}
WriteOk == [ok |-> TRUE, message |-> {}]
WriteFails(message) == [ok |-> FALSE, message |-> message]
Messages == {{}, {"Code=14"}, {"Unlikely error"}, {"CBATTErrorDomain"},
             {"CBATTErrorDomain", "Code=14"}, {"CBATTErrorDomain", "Unlikely error"}}
TransportResults == {WriteOk} \cup {WriteFails(m) : m \in Messages}

\* Variant: only "Code=14" marks an acknowledgement quirk.
is_ack_quirk_error_code_only(message) == "Code=14" \in message

\* "Code=14" in message or "Unlikely error" in message
is_ack_quirk_error(message) == "Code=14" \in message \/ "Unlikely error" \in message

\* Variant: no message is a CBATT error.
is_cbatt_error_never(message) == FALSE

\* "CBATTErrorDomain" in message
is_cbatt_error(message) == "CBATTErrorDomain" \in message

\* One client.write_gatt_char(char_uuid, payload, response=...)
GattWrite(payload, response) == [payload |-> payload, response |-> response]

\* What a call of write_with_strategy did: the transport writes it made, in
\* order, and the WriteOutcome it returned or the message of the exception
\* it raised (mode and next_state mean nothing then).
WriteOutcome(sent, mode, next_state, detail) ==
    [sent |-> sent, raised |-> FALSE, mode |-> mode, next_state |-> next_state, detail |-> detail]
WriteRaised(sent, message, state) ==
    [sent |-> sent, raised |-> TRUE, mode |-> "", next_state |-> state, detail |-> message]

\* Variant: the sticky state is never used.
UseStickyNever(config, state) == FALSE

\* if state.sticky_no_response and config.allow_no_response
UseSticky(config, state) == state.sticky_no_response /\ config.allow_no_response

\* Variant: every failure that is no assumed delivery falls back.
MayFallBackAlways(config, message) == TRUE

\* The negation of: if not is_cbatt_error(message) or not config.allow_no_response: raise
MayFallBack(config, message) == is_cbatt_error(message) /\ config.allow_no_response

\* write_with_strategy(client, char_uuid, payload, config=, state=), for a
\* transport on which the acknowledged write ends as ack and the
\* unacknowledged one as unack.
write_with_strategy(payload, config, state, ack, unack) ==
    IF UseSticky(config, state) THEN
        IF unack.ok
        THEN WriteOutcome(<<GattWrite(payload, FALSE)>>, WITHOUT_RESPONSE_STICKY, state, {})
        ELSE WriteRaised(<<GattWrite(payload, FALSE)>>, unack.message, state)
    ELSE IF ack.ok THEN
        WriteOutcome(<<GattWrite(payload, TRUE)>>, WITH_RESPONSE, WriteState(FALSE), {})
    ELSE IF is_ack_quirk_error(ack.message) /\ config.assume_sent_on_ack_quirk THEN
        WriteOutcome(<<GattWrite(payload, TRUE)>>, WITH_RESPONSE_ASSUME_SENT, state, ack.message)
    ELSE IF ~MayFallBack(config, ack.message) THEN
        WriteRaised(<<GattWrite(payload, TRUE)>>, ack.message, state)
    ELSE IF unack.ok
        THEN WriteOutcome(<<GattWrite(payload, TRUE), GattWrite(payload, FALSE)>>,
                      WITHOUT_RESPONSE, WriteState(TRUE), {})
        ELSE WriteRaised(<<GattWrite(payload, TRUE), GattWrite(payload, FALSE)>>, unack.message, state)

\* The entry of wrLog for one call: the configuration and state it was
\* given, how the acknowledged write ends on the transport, and what the
\* call did.
WriteCall(config, state, ack, outcome) ==
    [config |-> config, state |-> state, ack |-> ack, outcome |-> outcome]

\* The payload of the next write.
NextPayload == Len(wrLog) + 1

\* self.state = outcome.next_state, not reached when the call raised
SessionState(outcome) == IF outcome.raised THEN wrState ELSE outcome.next_state

\* WriteSession.write(client, write_uuid, payload)
SessionWrite(ack, unack) ==
    /\ wrPath = "session"
    /\ Len(wrLog) < MaxGattWrites
    /\ LET outcome == write_with_strategy(NextPayload, wrConfig, wrState, ack, unack)
       IN /\ wrState' = SessionState(outcome)
          /\ wrLog' = Append(wrLog, WriteCall(wrConfig, wrState, ack, outcome))
    /\ UNCHANGED <<wrPath, wrConfig>>
    /\ UNCHANGED exceptWriter

\* write_with_fallback(client, char_uuid, payload): the configuration and
\* the state are built anew for every call and the outcome's next_state is
\* dropped.
FallbackWrite(ack, unack) ==
    /\ wrPath = "fallback"
    /\ Len(wrLog) < MaxGattWrites
    /\ LET config == WriteConfig(TRUE, TRUE)
           state == WriteState(FALSE)
           outcome == write_with_strategy(NextPayload, config, state, ack, unack)
       IN wrLog' = Append(wrLog, WriteCall(config, state, ack, outcome))
    /\ UNCHANGED <<wrPath, wrConfig, wrState>>
    /\ UNCHANGED exceptWriter

\* A connection of the command client, or a WriteSession of the link test
\* with any configuration and the default state.
InitWriter ==
    /\ InitProgram
    /\ SplitterIdle
    /\ ClientIdle
    /\ CodecIdle
    /\ PublisherIdle
    /\ LinkIdle
    /\ wrPath \in {"fallback", "session"}
    /\ wrConfig \in {WriteConfig(a, q) : a \in BOOLEAN, q \in BOOLEAN}
    /\ wrPath = "fallback" => wrConfig = WriteConfig(TRUE, TRUE)
    /\ wrState = WriteState(FALSE)
    /\ wrLog = <<>>

NextWriter ==
    \/ \E ack \in TransportResults, unack \in {WriteOk, WriteFails({})} : SessionWrite(ack, unack)
    \/ \E ack \in TransportResults, unack \in {WriteOk, WriteFails({})} : FallbackWrite(ack, unack)

SpecWriter == InitWriter /\ [][NextWriter]_vars

\* ---------------------------------------------------------------------
\* protocol/envelope.py: encode_request, parse_request, parse_response
\* ---------------------------------------------------------------------
\* The strings the codec is given.
CodecStrings == {"", " ", "a", " a", "a ", "a b", "req-1"}

\* str.strip(), on the strings above
strip(str) ==
    IF str \in {"", " "} THEN ""
    ELSE IF str \in {" a", "a "} THEN "a"
    ELSE str

\* Python values: None, bool, int, float, str, list, tuple, dict.  A dict
\* is a function from its keys, which are strings here.
PyNone == [t |-> "none"]
PyBool(b) == [t |-> "bool", b |-> b]
PyInt(n) == [t |-> "int", n |-> n]
PyNaN == [t |-> "float", f |-> "nan"]
PyStr(str) == [t |-> "str", s |-> str]
PyList(items) == [t |-> "list", items |-> items]
PyTuple(items) == [t |-> "tuple", items |-> items]
PyDict(d) == [t |-> "dict", d |-> d]
EmptyDict == PyDict(<<>>)

\* JSON values, as written in a text.
JsonNull == [j |-> "null"]
JsonBool(b) == [j |-> IF b THEN "true" ELSE "false"]
JsonNumber(n) == [j |-> "number", n |-> n]
JsonNaN == [j |-> "NaN"]
JsonString(str) == [j |-> "string", s |-> str]
JsonArray(items) == [j |-> "array", items |-> items]
JsonObject(members) == [j |-> "object", members |-> members]

\* A text: one JSON value, or bytes that json.loads refuses.
JsonText(value) == [kind |-> "json", value |-> value]
Garbage == [kind |-> "garbage", value |-> JsonNull]

\* json.dumps: a tuple is written as an array like a list.
RECURSIVE ToJson(_)
ToJson(py) ==
    IF py.t = "none" THEN JsonNull
    ELSE IF py.t = "bool" THEN JsonBool(py.b)
    ELSE IF py.t = "int" THEN JsonNumber(py.n)
    ELSE IF py.t = "float" THEN JsonNaN
    ELSE IF py.t = "str" THEN JsonString(py.s)
    ELSE IF py.t \in {"list", "tuple"} THEN JsonArray([i \in DOMAIN py.items |-> ToJson(py.items[i])])
    ELSE JsonObject([k \in DOMAIN py.d |-> ToJson(py.d[k])])

json_dumps(py) == JsonText(ToJson(py))

\* json.loads: an array is read as a list, the literal NaN as a float.
RECURSIVE FromJson(_)
FromJson(json) ==
    IF json.j = "null" THEN PyNone
    ELSE IF json.j \in {"true", "false"} THEN PyBool(json.j = "true")
    ELSE IF json.j = "number" THEN PyInt(json.n)
    ELSE IF json.j = "NaN" THEN PyNaN
    ELSE IF json.j = "string" THEN PyStr(json.s)
    ELSE IF json.j = "array" THEN PyList([i \in DOMAIN json.items |-> FromJson(json.items[i])])
    ELSE PyDict([k \in DOMAIN json.members |-> FromJson(json.members[k])])

\* Variant: bytes that are no JSON are read as null.
json_loads_lenient(text) == [err |-> FALSE, value |-> FromJson(text.value)]

\* json.loads(text), err for JSONDecodeError
json_loads(text) ==
    IF text.kind = "garbage" THEN [err |-> TRUE, value |-> PyNone]
    ELSE [err |-> FALSE, value |-> FromJson(text.value)]

\* @dataclass CommandRequest
CommandRequest(request_id, command, args) ==
    [request_id |-> request_id, command |-> command, args |-> args]

\* Variant: the arguments are not written.
encode_request_no_args(request) ==
    json_dumps(PyDict([id |-> PyStr(request.request_id), cmd |-> PyStr(request.command),
                       args |-> EmptyDict, v |-> PyStr(PROTOCOL_VERSION)]))

\* encode_request(request)
encode_request(request) ==
    json_dumps(PyDict([id |-> PyStr(request.request_id), cmd |-> PyStr(request.command),
                       args |-> request.args, v |-> PyStr(PROTOCOL_VERSION)]))

\* payload.get(name)
Get(payload, name) == IF name \in DOMAIN payload THEN payload[name] ELSE PyNone

\* An argument of args as the argument rules see it.
ArgValue(args, name) ==
    IF args.t # "dict" \/ name \notin DOMAIN args.d THEN ArgAbsent
    ELSE IF args.d[name].t = "none" THEN ArgNull
    ELSE IF args.d[name].t = "str"
         THEN ArgStr(Len(args.d[name].s), Len(strip(args.d[name].s)), FALSE)
    ELSE ArgNumber

\* What parse_request looks at in a text: the outcome of json.loads, of
\* the isinstance tests and of strip().
RequestFrame(text) ==
    LET loaded == json_loads(text)
        payload == loaded.value.d
        cmd == Get(payload, "cmd")
        req_id == Get(payload, "id")
        args == IF "args" \in DOMAIN payload THEN payload["args"] ELSE EmptyDict
    IN IF loaded.err THEN [NoFrame EXCEPT !.json = "invalid"]
       ELSE IF loaded.value.t # "dict" THEN [NoFrame EXCEPT !.json = "nonobject"]
       ELSE [json |-> "object",
             cmd |-> IF cmd.t = "none" THEN "absent"
                     ELSE IF cmd.t # "str" THEN "nonstring"
                     ELSE IF strip(cmd.s) = "" THEN "blank" ELSE strip(cmd.s),
             id |-> IF req_id.t = "none" THEN "absent"
                    ELSE IF req_id.t # "str" THEN "nonstring"
                    ELSE IF strip(req_id.s) = "" THEN "blank" ELSE strip(req_id.s),
             args |-> IF args.t # "dict" THEN "nonobject"
                      ELSE IF "args" \in DOMAIN payload THEN "object" ELSE "absent",
             ssid |-> ArgValue(args, "ssid"),
             pwd |-> ArgValue(args, "pwd")]

\* A CommandParseError with its code, or the value returned.
ParseError(code) == [err |-> TRUE, code |-> code, value |-> <<>>]
Parsed(value) == [err |-> FALSE, code |-> CODE_OK, value |-> value]

\* parse_request(raw) on a text: the CommandRequest with its args, or the
\* error; n numbers the uuid4 generated.
parse_request_text(text, n) ==
    LET request == parse_request(RequestFrame(text), n)
        payload == json_loads(text).value.d
    IN IF request.err THEN ParseError(request.code)
       ELSE Parsed(CommandRequest(request.rid, request.cmd,
                                  IF "args" \in DOMAIN payload THEN payload["args"] ELSE EmptyDict))

\* Variant: the data of the response is dropped.
parse_response_no_data(body) ==
    Parsed(CommandResponse(strip(body.id), body.ok, strip(body.code), body.text, DataNone))

\* parse_response on the object encode_response wrote: id and code are
\* strings, ok is a bool, text a string and data a dict or not written.
parse_response(body) ==
    IF strip(body.id) = "" THEN ParseError(CODE_BAD_REQUEST)
    ELSE IF body.ok \notin BOOLEAN THEN ParseError(CODE_BAD_REQUEST)
    ELSE IF strip(body.code) = "" THEN ParseError(CODE_BAD_REQUEST)
    ELSE Parsed(CommandResponse(strip(body.id), body.ok, strip(body.code), body.text, body.data))

\* The values of an argument.
CodecValues == {PyNone, PyInt(1), PyStr(" a"), PyList(<<PyInt(1)>>), PyTuple(<<PyInt(1)>>), PyBool(TRUE)}

\* args: no argument, one, or two.
CodecArgs ==
    {EmptyDict} \cup {PyDict([x |-> v]) : v \in CodecValues}
        \cup {PyDict([ssid |-> PyStr("a b"), pwd |-> v]) : v \in {PyNone, PyStr("a")}}

\* The requests encoded and parsed again.
CodecRequests ==
    {CommandRequest(i, c, args) : i \in CodecStrings, c \in CodecStrings, args \in CodecArgs}

\* The responses encoded and parsed again.
CodecResponses ==
    {CommandResponse(i, ok, c, text, data) :
        i \in CodecStrings, ok \in BOOLEAN, c \in CodecStrings \cup {CODE_OK},
        text \in {<<>>, <<"a">>, <<"quote", "cjk">>},
        data \in {DataNone, Dict(<<>>), Dict(<<Item("final", "true")>>), Dict(<<ChunkItem(1, 2)>>)}}

\* What a member of a request object may be: not there, null, a number, a
\* string; for args also an array and an object.
NoMember == [j |-> "absent"]
CodecMembers == {NoMember, JsonNull, JsonNumber(1)} \cup {JsonString(str) : str \in CodecStrings \ {"req-1"}}
CodecArgMembers ==
    {NoMember, JsonNull, JsonArray(<<>>), JsonString("a"), JsonObject(<<>>), JsonObject([x |-> JsonNumber(1)])}

\* The object with the members that are there.
RequestObject(id, cmd, args) ==
    LET all == [id |-> id, cmd |-> cmd, args |-> args]
        names == {name \in {"id", "cmd", "args"} : all[name] # NoMember}
    IN JsonObject([name \in names |-> all[name]])

\* The texts parsed: no JSON, the literal NaN, values that are no object,
\* and objects with every choice of id, cmd and args.
CodecTexts ==
    {Garbage, JsonText(JsonNaN), JsonText(JsonNull), JsonText(JsonArray(<<>>)), JsonText(JsonString("a")),
     JsonText(JsonNumber(1))}
        \cup {JsonText(RequestObject(id, cmd, args)) :
                id \in CodecMembers, cmd \in CodecMembers, args \in CodecArgMembers}

InitCodec ==
    /\ InitProgram
    /\ SplitterIdle
    /\ ClientIdle
    /\ WriterIdle
    /\ PublisherIdle
    /\ LinkIdle
    /\ cdPc = "new"
    /\ cdOp \in {"parse_request", "request_roundtrip", "response_roundtrip"}
    /\ cdIn \in (IF cdOp = "parse_request" THEN CodecTexts
                  ELSE IF cdOp = "request_roundtrip" THEN CodecRequests ELSE CodecResponses)
    /\ cdOut = <<>>

\* parse_request(raw)
ParseRequestText ==
    /\ cdPc = "new" /\ cdOp = "parse_request"
    /\ cdOut' = parse_request_text(cdIn, 1)
    /\ cdPc' = "done"
    /\ UNCHANGED <<cdOp, cdIn>>
    /\ UNCHANGED exceptCodec

\* parse_request(encode_request(request))
RoundTripRequest ==
    /\ cdPc = "new" /\ cdOp = "request_roundtrip"
    /\ cdOut' = parse_request_text(encode_request(cdIn), 1)
    /\ cdPc' = "done"
    /\ UNCHANGED <<cdOp, cdIn>>
    /\ UNCHANGED exceptCodec

\* parse_response(encode_response(response))
RoundTripResponse ==
    /\ cdPc = "new" /\ cdOp = "response_roundtrip"
    /\ cdOut' = parse_response(encode_response(cdIn))
    /\ cdPc' = "done"
    /\ UNCHANGED <<cdOp, cdIn>>
    /\ UNCHANGED exceptCodec

NextCodec == ParseRequestText \/ RoundTripRequest \/ RoundTripResponse

SpecCodec == InitCodec /\ [][NextCodec]_vars

\* ---------------------------------------------------------------------
\* ble/response_publisher.py: ResponsePublisher.publish and next_payload
\* ---------------------------------------------------------------------
MaxPubCalls == 4

\* A request id of n characters.
RECURSIVE LongId(_)
LongId(n) ==
    IF n = 0 THEN ""
    ELSE IF n % 2 = 1 THEN "r" \o LongId(n - 1)
    ELSE LET half == LongId(n \div 2) IN half \o half

\* STATUS_STANDBY as a text: its ASCII letters.
StandbyText == TextOf(Len(STATUS_STANDBY), <<"a">>)

\* _initial_payload()
_initial_payload == encode_response(CommandResponse("-", TRUE, CODE_OK, StandbyText, DataNone))

\* The responses published: with each code, a text that fits into one
\* frame; texts that take three frames and two behind a long request id;
\* an empty text behind an id that fills the frame alone; and an empty text
\* that fits.
PubCodes ==
    {CODE_OK, CODE_BAD_REQUEST, CODE_BUSY, CODE_IN_PROGRESS, CODE_PROVISION_SUCCESS, CODE_PROVISION_FAIL}
PubResponses ==
    {CommandResponse("a", code # CODE_PROVISION_FAIL, code, TextOf(2, <<"a">>), DataNone) : code \in PubCodes}
        \cup {CommandResponse(LongId(200), TRUE, CODE_OK, TextOf(15, <<"ctrl">>), DataNone),
              CommandResponse(LongId(180), TRUE, CODE_IN_PROGRESS, TextOf(12, <<"ctrl">>),
                              Dict(<<Item("final", "false")>>)),
              CommandResponse(LongId(320), FALSE, CODE_PROVISION_FAIL, <<>>, DataNone),
              CommandResponse("b", FALSE, CODE_PROVISION_FAIL, <<>>, Dict(<<Item("final", "true")>>))}

\* list(self._chunk_response_if_needed(response, MAX_BLE_PAYLOAD_BYTES))
PubPayloads == [response \in PubResponses |-> _chunk_response_if_needed(response, MAX_BLE_PAYLOAD_BYTES)]

\* ResponsePublisher()
InitPublisher ==
    /\ InitProgram
    /\ SplitterIdle
    /\ ClientIdle
    /\ WriterIdle
    /\ CodecIdle
    /\ LinkIdle
    /\ _status_text = StandbyText
    /\ _last_payload = _initial_payload
    /\ _payload_queue = <<>>
    /\ _current_chunk = <<>>
    /\ pubLog = <<>>

\* self._payload_queue.clear() and the appends of payloads[1:]
QueueReplaced(queue, payloads) ==
    [k \in 1..(Len(payloads) - 1) |-> <<k + 1, Len(payloads), payloads[k + 1]>>]

\* publish(response, ...): without a payload nothing is touched; else the
\* queue is replaced by the frames after the first, the first becomes the
\* payload read next, and a status code makes the text the status text.
publish(response) ==
    LET payloads == PubPayloads[response]
    IN /\ Len(pubLog) < MaxPubCalls
       /\ pubLog' = Append(pubLog, [op |-> "publish", response |-> response, payloads |-> payloads,
                                    returned |-> <<>>])
       /\ IF payloads = <<>>
            THEN UNCHANGED <<_status_text, _last_payload, _payload_queue, _current_chunk>>
            ELSE /\ _payload_queue' = QueueReplaced(_payload_queue, payloads)
                 /\ _last_payload' = payloads[1]
                 /\ _current_chunk' = <<1, Len(payloads)>>
                 /\ _status_text' = IF _should_update_status(response.code) THEN response.text
                                    ELSE _status_text
       /\ UNCHANGED exceptPublisher

\* next_payload(): the current payload is returned and the head of the
\* queue, when there is one, becomes the current payload.
next_payload ==
    /\ Len(pubLog) < MaxPubCalls
    /\ pubLog' = Append(pubLog, [op |-> "read", response |-> NoResponse, payloads |-> <<>>,
                                 returned |-> <<_last_payload>>])
    /\ IF _payload_queue # <<>>
         THEN /\ _last_payload' = Head(_payload_queue)[3]
              /\ _current_chunk' = <<Head(_payload_queue)[1], Head(_payload_queue)[2]>>
              /\ _payload_queue' = Tail(_payload_queue)
         ELSE UNCHANGED <<_last_payload, _current_chunk, _payload_queue>>
    /\ UNCHANGED _status_text
    /\ UNCHANGED exceptPublisher

NextPublisher ==
    \/ \E response \in PubResponses : publish(response)
    \/ next_payload

SpecPublisher == InitPublisher /\ [][NextPublisher]_vars

(***************************************************************************)
(* server/link_test_server.py and protocol/link.py: the hello-world link   *)
(* server and its cache of replies.                                        *)
(***************************************************************************)
MaxLinkTokens == 66
MaxReinserts == 2

\* while len(self._reply_cache) > 64
ReplyCacheCapacity == 64

\* What a client writes: text that is no JSON, nothing at all, JSON that
\* is no object, or an object whose "token" member is a sequence token
\* (numbered n), absent, blank or a number.  variant tells two texts with
\* the same token apart, pad says that the text is wrapped in whitespace.
LinkFrame(kind, tk, n, variant, pad) ==
    [kind |-> kind, tk |-> tk, n |-> n, variant |-> variant, pad |-> pad]

\* The text "<empty>".
EmptyText == LinkFrame("not_json", "absent", 0, 0, FALSE)

\* raw.decode("utf-8", errors="ignore").strip() or "<empty>"
recv_text(raw) == IF raw.kind = "empty" THEN EmptyText ELSE [raw EXCEPT !.pad = FALSE]

NoToken == [t |-> "none", n |-> 0]
Token(n) == [t |-> "str", n |-> n]
TokenRaises == [t |-> "raise", n |-> 0]

\* extract_seq_token: None for text that is no JSON and for a token that
\* is no string or blank; payload.get raises AttributeError when the JSON
\* value is no object, outside the try block.
extract_seq_token(text) ==
    IF text.kind = "not_json" THEN NoToken
    ELSE IF text.kind = "not_object" THEN TokenRaises
    ELSE IF text.tk = "str" THEN Token(text.n)
    ELSE NoToken

build_server_reply(received_text) ==
    [cmd |-> "pong", token |-> extract_seq_token(received_text), got |-> received_text]

\* self._reply_cache.get(token): <<>> for None.
CacheGet(cache, token) ==
    LET found == {k \in DOMAIN cache : cache[k].token = token}
    IN IF found = {} THEN <<>> ELSE <<cache[CHOOSE k \in found : TRUE].reply>>

\* Variant: popitem(last=True) removes the entry inserted last.
popitem_last(cache) == SubSeq(cache, 1, Len(cache) - 1)

\* self._reply_cache.popitem(last=False)
popitem(cache) == Tail(cache)

RECURSIVE Evicted(_)
Evicted(cache) ==
    IF Len(cache) > ReplyCacheCapacity THEN Evicted(popitem(cache)) ELSE cache

\* Variant: the reply to a cached token is built again from the text.
ReplyRebuilt(cached, text) == build_server_reply(text)

\* reply = cached_reply
ReplyFor(cached, text) == cached[1]

\* HelloLinkServer._on_write.  An entry of the cache carries, next to the
\* token and the reply, the number of the insertion that put it there.
_on_write(raw) ==
    LET text == recv_text(raw)
        token == extract_seq_token(text)
        cached == IF token.t = "str" THEN CacheGet(_reply_cache, token) ELSE <<>>
        reply == IF cached # <<>> THEN ReplyFor(cached, text) ELSE build_server_reply(text)
        stores == cached = <<>> /\ token.t = "str"
    IN /\ lkIn' = raw
       /\ _client_active' = TRUE
       /\ IF token.t = "raise"
            THEN /\ lkOut' = <<[cmd |-> "AttributeError", token |-> token, got |-> text]>>
                 /\ UNCHANGED <<_reply_cache, lkInserts>>
            ELSE /\ lkOut' = <<reply>>
                 /\ lkInserts' = IF stores THEN lkInserts + 1 ELSE lkInserts
                 /\ _reply_cache' =
                      IF stores
                        THEN Evicted(Append(_reply_cache,
                                            [token |-> token, reply |-> reply, nth |-> lkInserts + 1]))
                        ELSE _reply_cache

CachedTokens == {_reply_cache[k].token.n : k \in DOMAIN _reply_cache}

\* The tokens a client repeats: the oldest and the newest of the cache,
\* the first one it ever used and the one that left the cache last.
Repeated ==
    LET gone == (1..lkFresh) \ CachedTokens
    IN (IF _reply_cache = <<>> THEN {}
          ELSE {_reply_cache[1].token.n, _reply_cache[Len(_reply_cache)].token.n})
         \cup (IF lkFresh > 0 THEN {1} ELSE {})
         \cup (IF gone = {} THEN {} ELSE {CHOOSE n \in gone : \A m \in gone : m <= n})

\* The frames written in the current state: the next sequence token, a
\* token used before with the same or another text, and frames without a
\* token.
LinkWrites ==
    (IF lkFresh < MaxLinkTokens THEN {LinkFrame("object", "str", lkFresh + 1, 1, FALSE)} ELSE {})
      \cup {LinkFrame("object", "str", n, variant, pad) :
               n \in {m \in Repeated : m \in CachedTokens \/ lkInserts - lkFresh < MaxReinserts},
               variant \in {1, 2}, pad \in BOOLEAN}
      \cup {LinkFrame(kind, "absent", 0, 1, FALSE) : kind \in {"not_json", "empty", "not_object"}}
      \cup {LinkFrame("object", tk, 0, 1, FALSE) : tk \in {"absent", "blank", "number"}}

\* A client writes a frame to the link server.
LinkWrite(raw) ==
    /\ _on_write(raw)
    /\ lkFresh' = IF raw.tk = "str" /\ raw.n = lkFresh + 1 THEN lkFresh + 1 ELSE lkFresh
    /\ UNCHANGED exceptLink

InitLink ==
    /\ InitProgram
    /\ SplitterIdle
    /\ ClientIdle
    /\ WriterIdle
    /\ CodecIdle
    /\ PublisherIdle
    /\ LinkIdle

NextLink == \E raw \in LinkWrites : LinkWrite(raw)

SpecLink == InitLink /\ [][NextLink]_vars

\* The server: inbound writes, the tasks they create, shutdown and teardown.
Next ==
    \/ \E f \in Frames : ServerWrite(f)
    \/ \E i \in Writes : PwRunInline(i)
    \/ \E i \in Writes : PwSpawnHandler(i)
    \/ \E i \in Writes : HtRun(i)
    \/ \E i \in Writes : RelRun(i)
    \/ \E i \in Writes : PwResume(i)
    \/ \E i \in Attempts : PvBegin(i)
    \/ \E i \in Attempts : PvBeginJoinReturns(i)
    \/ \E i \in Attempts : PvBeginJoinRaises(i)
    \/ \E i \in Attempts, o \in {"ok", "fail", "raise"} : JoinFinish(i, o)
    \/ \E i \in Attempts : PvJoinReturned(i)
    \/ \E i \in Attempts : PvJoinRaised(i)
    \/ \E i \in Attempts : PvFinal(i)
    \/ \E i \in Attempts : PvCleanup(i)
    \/ \E i \in Attempts : HbStart(i)
    \/ \E i \in Attempts : TimerFire(i)
    \/ \E i \in Attempts : HbBeat(i)
    \/ \E i \in Attempts : HbLeave(i)
    \/ \E i \in Attempts : HbCancelled(i)
    \/ MainWake
    \/ StopFinish
    \/ MainReturn
    \/ CancelAll
    \/ \E i \in Writes : PwCancelled(i)
    \/ \E i \in Writes : HtCancelled(i)
    \/ \E i \in Attempts : PvCancelled(i)

Spec == Init /\ [][Next]_vars

\* The server under malformed frames and invalid arguments, next to an
\* attempt whose join returns.
NextDispatch ==
    \/ \E f \in DispatchFrames : Write(f)
    \/ \E i \in Writes : PwParseError(i)
    \/ \E i \in Writes : PwDispatchReject(i)
    \/ \E i \in Writes : PwRunInline(i)
    \/ \E i \in Writes : PwSpawnHandler(i)
    \/ \E i \in Writes : HtRun(i)
    \/ \E i \in Writes : RelRun(i)
    \/ \E i \in Writes : PwResume(i)
    \/ \E i \in Attempts : PvBegin(i)
    \/ \E i \in Attempts, o \in {"ok", "fail"} : JoinFinish(i, o)
    \/ \E i \in Attempts : PvJoinReturned(i)
    \/ \E i \in Attempts : PvFinal(i)
    \/ \E i \in Attempts : HbStart(i)
    \/ \E i \in Attempts : TimerFire(i)
    \/ \E i \in Attempts : HbBeat(i)
    \/ \E i \in Attempts : HbLeave(i)

SpecDispatch == Init /\ [][NextDispatch]_vars

\* The server driven with provision requests that differ in the password.
NextPassword ==
    \/ \E f \in PasswordFrames : Write(f)
    \/ \E i \in Writes : PwRunInline(i)
    \/ \E i \in Writes : PwSpawnHandler(i)
    \/ \E i \in Writes : HtRun(i)
    \/ \E i \in Writes : RelRun(i)
    \/ \E i \in Writes : PwResume(i)
    \/ \E i \in Attempts : PvBegin(i)
    \/ \E i \in Attempts, o \in {"ok", "fail"} : JoinFinish(i, o)
    \/ \E i \in Attempts : PvJoinReturned(i)
    \/ \E i \in Attempts : PvFinal(i)
    \/ \E i \in Attempts : HbStart(i)
    \/ \E i \in Attempts : TimerFire(i)
    \/ \E i \in Attempts : HbBeat(i)
    \/ \E i \in Attempts : HbLeave(i)

SpecPassword == Init /\ [][NextPassword]_vars

\* _provision_wifi called directly, any number of times at any moment.
NextHarness ==
    \/ \E r \in RIDs : DirectProvision(r)
    \/ \E i \in Attempts : PvBusy(i)
    \/ \E i \in Attempts : PvBegin(i)
    \/ \E i \in Attempts : PvBeginJoinReturns(i)
    \/ \E i \in Attempts : PvBeginJoinRaises(i)
    \/ \E i \in Attempts, o \in {"ok", "fail", "raise"} : JoinFinish(i, o)
    \/ \E i \in Attempts : PvJoinReturned(i)
    \/ \E i \in Attempts : PvJoinRaised(i)
    \/ \E i \in Attempts : PvFinal(i)
    \/ \E i \in Attempts : PvCleanup(i)
    \/ \E i \in Attempts : HbStart(i)
    \/ \E i \in Attempts : TimerFire(i)
    \/ \E i \in Attempts : HbBeat(i)
    \/ \E i \in Attempts : HbLeave(i)
    \/ \E i \in Attempts : HbCancelled(i)

SpecHarness == Init /\ [][NextHarness]_vars

\* The dispatcher called with any request and any handler behaviour.
NextRuntime ==
    \/ \E r \in RIDs, c \in {CMD_PING, CMD_PROVISION, "nope"}, b \in Behaviours : dispatch(r, c, b)
    \/ \E w \in {HandlerReturns} \cup {HandlerRaises(c) : c \in ExceptionClasses} : HandlerFinishes(w)
    \/ TimeoutExpires

SpecRuntime == Init /\ [][NextRuntime]_vars

NextRegistry ==
    \E name \in RegNames : \E handler \in RegHandlers : register(CommandSpec(name), handler)

SpecRegistry == Init /\ [][NextRegistry]_vars

NextSplitter == ChunkResponse

SpecSplitter == InitSplitter /\ [][NextSplitter]_vars

NextClient ==
    \/ WrGiveUp
    \/ \E read \in Reads(WrFrames) : WrPoll(read)
    \/ WsGiveUp
    \/ \E read \in Reads(WsFrames) : WsPoll(read)

SpecClient == InitClient /\ [][NextClient]_vars

\* The client waits against a peer that keeps delivering new fragments, in
\* the order of their indices and with repeats, or new heartbeat texts; a
\* read may time out.
NextCeiling ==
    \/ WrGiveUp
    \/ \E read \in StallFrames \cup {ReadTimeout} :
          /\ read.kind = "frame" => read.index <= Cardinality(DOMAIN rx_chunks) + 1
          /\ WrPoll(read)
    \/ WsGiveUp
    \/ \E read \in HeartbeatFrames \cup {ReadTimeout} : WsPoll(read)

SpecCeiling == InitCeiling /\ [][NextCeiling]_vars

(***************************************************************************)
(* Properties.                                                             *)
(***************************************************************************)
Entries == 1..Len(log)

\* The response write j's handler has produced: published at once where
\* the handler runs in the caller's task, else held by the handler task.
Produced(j) == IF pyInline THEN log[Len(log)].resp ELSE htResult[j]

\* The attempt is inside connect_and_get_ip, under the lock.
InJoin(i) == pvPc[i] \in {"join", "joined"}

\* The attempt's task exists and has not ended.
Live(i) == pvPc[i] \notin {"none", "done"}

SpawnedTasks == {ready[k] : k \in 1..Len(ready)}

\* C1: in every reachable state at most one provisioning attempt is inside
\* connect_and_get_ip, and that attempt is the holder of _connect_lock.
C1_SingleFlight ==
    /\ Cardinality({i \in Attempts : InJoin(i)}) <= 1
    /\ \A i \in Attempts : InJoin(i) => lockHolder = i

\* An attempt arrived while another one was inside the join and was turned
\* away with BUSY, the first one still joining.
C1_Witness ==
    \E i, j \in Attempts :
        /\ i # j /\ InJoin(i) /\ pvPc[j] = "done"
        /\ \E k \in Entries : log[k].by = "pv" /\ log[k].src = j /\ log[k].resp.code = CODE_BUSY

\* C2: a provision request B handled while attempt A holds the lock gets
\* BUSY with final=true and B's request id, no attempt is created and the
\* join is never invoked for B, and the step leaves A's task, A's
\* heartbeat and the lock as they were; the response the handler returned
\* is the one _process_write publishes.
C2_BusyWhileLocked ==
    [][\A j \in Writes :
          /\ (j \notin handlerRuns /\ j \in handlerRuns' /\ Locked
                /\ parse_request(frames[j], j).cmd = CMD_PROVISION)
               => /\ Produced(j)' = response_status(parse_request(frames[j], j).rid, CODE_BUSY,
                                                    "Provisioning in progress", TRUE)
                  /\ Produced(j)'.final = "true"
                  /\ startCalls'[j] = "rejected"
                  /\ T("pv", j) \notin SpawnedTasks'
                  /\ UNCHANGED <<pvPc, pvRid, pvJoin, hbPc, hbStop, lockHolder, pending, joinCalls,
                                 mustCancel>>
          /\ (pwPc[j] = "woken" /\ pwPc'[j] = "done")
               => log' = Append(log, [resp |-> htResult[j], by |-> "pw", src |-> j])
          /\ (startCalls'[j] = "rejected") => (j \notin joinCalls' /\ pvPc'[j] = "none")
      ]_vars

\* B's BUSY is published after A's "Connecting"; A's heartbeat and A's
\* final response follow it.
C2_Witness ==
    /\ pyInline
    /\ \E i, j \in Writes : \E k0, k1, k2, k3 \in Entries :
        /\ i # j /\ k0 < k1 /\ k1 < k2 /\ k2 < k3
        /\ log[k0].by = "pv" /\ log[k0].src = i
        /\ log[k1].by = "pw" /\ log[k1].src = j /\ log[k1].resp.code = CODE_BUSY
        /\ log[k1].resp.final = "true" /\ log[k1].resp.rid = "b"
        /\ log[k2].by = "hb" /\ log[k2].src = i /\ log[k2].resp.rid = "a"
        /\ log[k3].by = "pv" /\ log[k3].src = i /\ log[k3].resp.final = "true"

\* C3: a call of _start_provision is rejected exactly when the lock is held
\* or the pending flag is set, and then creates no task and changes no
\* flag; an accepted call sets the pending flag and creates the attempt's
\* task; so at most one accepted attempt is unfinished at any time.
C3_StartProvision ==
    [][/\ \A j \in Writes :
            (startCalls[j] = "none" /\ startCalls'[j] # "none")
              => /\ (startCalls'[j] = "rejected") <=> (lockHolder # 0 \/ pending)
                 /\ (startCalls'[j] = "rejected")
                      => /\ UNCHANGED <<pending, lockHolder, pvPc, hbPc, pvRid>>
                         /\ \A i \in Attempts : T("pv", i) \in SpawnedTasks' => T("pv", i) \in SpawnedTasks
                 /\ (startCalls'[j] = "accepted")
                      => /\ pending'
                         /\ pvPc'[j] = "new"
                         /\ T("pv", j) \in SpawnedTasks'
                         /\ \A i \in Attempts \ {j} : ~Live(i)
       /\ Cardinality({j \in Writes : startCalls'[j] = "accepted" /\ Live(j)'}) <= 1
      ]_vars

\* Two start calls, the second made before the first attempt's task has
\* taken the lock: the first accepted, the second rejected.
C3_Witness ==
    \E i, j \in Writes :
        /\ startCalls[i] = "accepted" /\ pvPc[i] = "new" /\ lockHolder = 0
        /\ startCalls[j] = "rejected"

\* The final responses attempt i has published itself.
FinalsOf(i) ==
    {k \in Entries : log[k].by = "pv" /\ log[k].src = i /\ log[k].resp.final = "true"}

\* C4: an accepted attempt whose join returned success, returned failure or
\* raised has, once it has ended, published exactly one final response:
\* PROVISION_SUCCESS when the join succeeded, PROVISION_FAIL otherwise.
C4_OneFinalPerAttempt ==
    \A i \in Writes :
        (startCalls[i] = "accepted" /\ pvPc[i] = "done" /\ pvJoin[i] \in {"ok", "fail", "raise"})
          => /\ Cardinality(FinalsOf(i)) = 1
             /\ \A k \in FinalsOf(i) :
                  /\ log[k].resp.rid = pvRid[i]
                  /\ log[k].resp.code = IF pvJoin[i] = "ok" THEN CODE_PROVISION_SUCCESS
                                                            ELSE CODE_PROVISION_FAIL

\* C5: once a response with final=true has been published for a request
\* id, no later response carries that id.
C5_FinalTerminates ==
    \A k1, k2 \in Entries :
        (k1 < k2 /\ log[k1].resp.final = "true") => log[k2].resp.rid # log[k1].resp.rid

\* C6: when an accepted attempt has ended, by whatever path, and no other
\* attempt is under way, the lock is free and the pending flag is false,
\* so that the next start call is accepted.
C6_CleanupOnEveryPath ==
    \A i \in Writes :
        (startCalls[i] = "accepted" /\ pvPc[i] = "done" /\ \A j \in Attempts : ~Live(j))
          => (lockHolder = 0 /\ ~pending)

\* C7: for an accepted provision request the "Provision accepted" response
\* is in the log before the attempt publishes anything and before the
\* attempt invokes the join.
C7_AcceptedFirst ==
    \A i \in Writes :
        (startCalls[i] = "accepted"
           /\ (i \in joinCalls \/ \E k \in Entries : log[k].by = "pv" /\ log[k].src = i))
          => \E k \in Entries :
               /\ log[k].by = "pw" /\ log[k].src = i
               /\ log[k].resp.code = CODE_IN_PROGRESS /\ log[k].resp.final = "false"
               /\ \A k2 \in Entries : (log[k2].by = "pv" /\ log[k2].src = i) => k < k2

\* The responses write j's task has published.
PublishedBy(j) == {k \in Entries : log[k].by = "pw" /\ log[k].src = j}

\* The step in which the task of write j handles its frame.
Handles(j) == pwPc[j] = "new" /\ pwPc'[j] # "new"

\* The step appends exactly one response to the log.
PublishesOne == Len(log') = Len(log) + 1 /\ SubSeq(log', 1, Len(log)) = log

\* The step leaves the provisioning coordinator and every attempt alone.
CoordinatorUntouched ==
    UNCHANGED <<lockHolder, pending, pvPc, pvRid, pvJoin, hbPc, hbStop, joinCalls, startCalls>>

\* C9: the step that handles a write whose frame fails to parse publishes
\* exactly one error response, with the parse error's code (BAD_JSON or
\* BAD_REQUEST), and ends the task; the dispatcher is not invoked, no
\* handler runs, the lock and the pending flag are unchanged, and the other
\* tasks stay scheduled as they were.
C9_ParseFailure ==
    [][\A j \in Writes :
          /\ (Handles(j) /\ parse_request(frames[j], j).err)
               => /\ PublishesOne
                  /\ log'[Len(log')].by = "pw" /\ log'[Len(log')].src = j
                  /\ ~log'[Len(log')].resp.ok
                  /\ log'[Len(log')].resp.code = parse_request(frames[j], j).code
                  /\ log'[Len(log')].resp.code \in {CODE_BAD_JSON, CODE_BAD_REQUEST}
                  /\ pwPc'[j] = "done"
                  /\ UNCHANGED <<dispatchCalls, handlerRuns, server, phase, mainPc>>
                  /\ CoordinatorUntouched
                  /\ ready' = Tail(ready)
          /\ Cardinality(PublishedBy(j)') <= 1
      ]_vars

\* A frame that is not JSON was answered with BAD_JSON while an attempt
\* held the lock, and a write made after it got its own response.
C9_Witness ==
    \E j, j2 \in Writes : \E k, k2 \in Entries :
        /\ j < j2 /\ k < k2
        /\ log[k].by = "pw" /\ log[k].src = j /\ log[k].resp.code = CODE_BAD_JSON
        /\ log[k].resp.rid = "-"
        /\ log[k2].by = "pw" /\ log[k2].src = j2 /\ log[k2].resp.code = CODE_IN_PROGRESS
        /\ lockHolder = j2

\* The argument faults of a provision request: ssid missing, ssid empty or
\* whitespace only, a value that is neither a string nor null.
LacksRequired(f) == f.args # "object" \/ f.ssid.type \in {"absent", "null"}

BlankRequired(f) == f.args = "object" /\ f.ssid.type = "string" /\ f.ssid.stripped = 0

NonStringValue(f) == f.args = "object" /\ (f.ssid.type = "number" \/ f.pwd.type = "number")

NullValue(f) == f.args = "object" /\ (f.ssid.type = "null" \/ f.pwd.type = "null")

\* The step answers write j with BAD_REQUEST and the request's id, runs no
\* handler and leaves the coordinator alone.
RejectedUnrun(j) ==
    /\ PublishesOne
    /\ log'[Len(log')].by = "pw" /\ log'[Len(log')].src = j
    /\ ~log'[Len(log')].resp.ok
    /\ log'[Len(log')].resp.code = CODE_BAD_REQUEST
    /\ log'[Len(log')].resp.rid = frames[j].id
    /\ pwPc'[j] = "done"
    /\ UNCHANGED handlerRuns
    /\ CoordinatorUntouched

WellFormedProvision(f) ==
    /\ ~parse_request(f, 1).err /\ f.cmd = CMD_PROVISION /\ f.id \in RIDs

\* C10 as stated: a provision request that lacks ssid, gives it blank, or
\* gives any non-string value (a JSON null included) for ssid or pwd is
\* answered BAD_REQUEST with its id without running the handler.
C10_AsStated ==
    [][\A j \in Writes :
          (Handles(j) /\ WellFormedProvision(frames[j])
             /\ (LacksRequired(frames[j]) \/ BlankRequired(frames[j])
                   \/ NonStringValue(frames[j]) \/ NullValue(frames[j])))
            => RejectedUnrun(j)
      ]_vars

\* C10: a provision request that lacks ssid (absent or null), gives it
\* blank, or gives a value that is neither a string nor null for ssid or
\* pwd is answered BAD_REQUEST with its id; the handler does not run,
\* _start_provision is not called and the coordinator is unchanged.
C10_ArgumentFaults ==
    [][\A j \in Writes :
          (Handles(j) /\ WellFormedProvision(frames[j])
             /\ (LacksRequired(frames[j]) \/ BlankRequired(frames[j]) \/ NonStringValue(frames[j])))
            => RejectedUnrun(j)
      ]_vars

\* A request with a numeric pwd was rejected while an attempt was pending
\* or in flight.
C10_Witness ==
    \E j \in Writes : \E k \in Entries :
        /\ log[k].by = "pw" /\ log[k].src = j
        /\ log[k].resp.code = CODE_BAD_REQUEST /\ log[k].resp.text = "must be string"
        /\ log[k].resp.rid = "a"
        /\ j \in dispatchCalls /\ j \notin handlerRuns
        /\ pending

\* C8: every dispatch call returns a response with the request's id and
\* raises nothing; a handler that exceeded the timeout gives ok=false
\* TIMEOUT; a handler that failed in any other way gives ok=false
\* INTERNAL_ERROR naming the failure's type, and the logger was called once.
C8_DispatchNeverRaises ==
    \A k \in 1..Len(rtOut) :
        LET e == rtOut[k] IN
        /\ e.result.raised = ""
        /\ e.result.resp.rid = e.rid
        /\ e.did.kind = "exceeded" => (~e.result.resp.ok /\ e.result.resp.code = CODE_TIMEOUT)
        /\ e.did.kind = "raise"
             => /\ ~e.result.resp.ok
                /\ e.result.resp.code = CODE_INTERNAL_ERROR
                /\ e.result.resp.text = e.did.cls
                /\ e.result.logged = 1

\* C11: the step that handles a well-formed request whose command is not
\* registered publishes one response, ok=false UNKNOWN_COMMAND with the
\* request's id, runs no handler and changes nothing else of the server:
\* coordinator, attempts, shutdown event and status text stay as they were.
C11_UnknownCommand ==
    [][\A j \in Writes :
          (Handles(j) /\ ~parse_request(frames[j], j).err
             /\ frames[j].cmd \notin {CMD_PING, CMD_PROVISION, CMD_SHUTDOWN})
            => /\ PublishesOne
               /\ log'[Len(log')].by = "pw" /\ log'[Len(log')].src = j
               /\ ~log'[Len(log')].resp.ok
               /\ log'[Len(log')].resp.code = CODE_UNKNOWN_COMMAND
               /\ log'[Len(log')].resp.rid = parse_request(frames[j], j).rid
               /\ pwPc'[j] = "done"
               /\ UNCHANGED <<handlerRuns, shutdownRequested, mainPc, server, phase, statusText,
                              mustCancel, htPc, beats>>
               /\ CoordinatorUntouched
               /\ ready' = Tail(ready)
      ]_vars

\* A request for the command "nope" was answered UNKNOWN_COMMAND while an
\* attempt was inside the join.
C11_Witness ==
    \E j \in Writes : \E k \in Entries : \E i \in Attempts :
        /\ log[k].by = "pw" /\ log[k].src = j
        /\ log[k].resp.code = CODE_UNKNOWN_COMMAND /\ log[k].resp.rid = "a"
        /\ j \in dispatchCalls /\ j \notin handlerRuns
        /\ InJoin(i)

\* Position in regOut of the first register call for a name.
RegFirst(name) == CHOOSE k \in 1..Len(regOut) : regOut[k].name = name /\ \A h \in 1..(k-1) : regOut[h].name # name

\* C12: a register call whose name is already registered raises and
\* leaves the registry as it was, and at all times every registered name
\* maps to the spec and handler of the first call for that name, which is
\* the only one that did not raise.
C12_DuplicateRegistration ==
    [][/\ (regOut' # regOut /\ regOut'[Len(regOut')].name \in DOMAIN _registry)
            => (regOut'[Len(regOut')].raised = "ValueError" /\ _registry' = _registry)
       /\ DOMAIN _registry' = {regOut'[k].name : k \in 1..Len(regOut')}
       /\ \A name \in DOMAIN _registry' :
             /\ _registry'[name] = RegisteredCommand(CommandSpec(name), regOut'[RegFirst(name)'].handler)
             /\ \A k \in 1..Len(regOut') :
                   regOut'[k].name = name => (regOut'[k].raised = "none" <=> k = RegFirst(name)')
      ]_vars

\* A name was registered with one handler, a later call for the same name
\* with another handler raised, and a different name was registered after.
C12_Witness ==
    \E k, h, g \in 1..Len(regOut) :
        /\ k < h /\ h < g
        /\ regOut[k].name = regOut[h].name /\ regOut[k].handler # regOut[h].handler
        /\ regOut[k].raised = "none" /\ regOut[h].raised = "ValueError"
        /\ regOut[g].name # regOut[k].name /\ regOut[g].raised = "none"
        /\ _registry[regOut[k].name].handler = regOut[k].handler

\* The step in which the command handler of write j runs.
HandlerStep(j) == j \notin handlerRuns /\ j \in handlerRuns'

\* The response the handler of write j returned in this step: published at
\* once when the handler runs in the write's task, kept for the write's task
\* when it runs in a task of its own.
HandlerReturned(j) == IF pwPc'[j] = "done" THEN log'[Len(log')].resp ELSE htResult'[j]

\* An SSID that passes validation, and a password that is a string or is
\* not given.
ValidSsid(f) == f.ssid.type = "string" /\ f.ssid.stripped > 0
TextPassword(f) == f.pwd.type \in {"absent", "string"}

\* The password is empty, 8 to 63 characters, or 64 hexadecimal characters.
AcceptablePassword(f) ==
    \/ f.pwd.type = "absent"
    \/ f.pwd.len = 0
    \/ f.pwd.len \in 8..63
    \/ (f.pwd.len = 64 /\ f.pwd.hex)

\* C13: when the handler runs for a provision request with a valid ssid,
\* start_provision is called if and only if the password is empty, 8 to 63
\* characters long or exactly 64 hexadecimal characters; for any other
\* password the handler returns ok=false BAD_REQUEST 'Invalid Wi-Fi
\* password' with the request's id and the coordinator is untouched; and
\* the write's task publishes the handler's response as it was returned.
C13_PasswordRule ==
    [][\A j \in Writes :
          /\ (HandlerStep(j) /\ WellFormedProvision(frames[j]) /\ ValidSsid(frames[j])
                /\ TextPassword(frames[j]))
               => IF AcceptablePassword(frames[j])
                  THEN /\ startCalls[j] = "none" /\ startCalls'[j] \in {"accepted", "rejected"}
                       /\ HandlerReturned(j).code \in {CODE_IN_PROGRESS, CODE_BUSY}
                  ELSE /\ startCalls'[j] = "none"
                       /\ CoordinatorUntouched
                       /\ HandlerReturned(j) =
                            response_error(frames[j].id, CODE_BAD_REQUEST, "Invalid Wi-Fi password")
          /\ (pwPc[j] = "woken" /\ pwPc'[j] = "done")
               => (PublishesOne /\ log'[Len(log')].resp = htResult[j] /\ log'[Len(log')].src = j)
      ]_vars

\* One request's password was accepted and start_provision took it, and
\* another request's password was refused by the handler with BAD_REQUEST.
C13_Witness ==
    \E j, h \in Writes : \E k \in Entries :
        /\ startCalls[j] = "accepted"
        /\ log[k].by = "pw" /\ log[k].src = h /\ h \in handlerRuns /\ startCalls[h] = "none"
        /\ log[k].resp.code = CODE_BAD_REQUEST /\ log[k].resp.text = "Invalid Wi-Fi password"
        /\ ~log[k].resp.ok /\ log[k].resp.rid = "a"

\* The chunk metadata of a payload, and whether it has any.
HasChunk(frame) == ~frame.data.none /\ \E k \in 1..Len(frame.data.items) : frame.data.items[k].key = "chunk"
ChunkOf(frame) == frame.data.items[CHOOSE k \in 1..Len(frame.data.items) : frame.data.items[k].key = "chunk"]
ChunkIndex(frame) == IF HasChunk(frame) THEN ChunkOf(frame).index ELSE 1

\* The texts of the payloads with chunk index from..Len(splOut), joined.
RECURSIVE TextInIndexOrder(_)
TextInIndexOrder(from) ==
    IF from > Len(splOut) THEN <<>>
    ELSE LET k == CHOOSE h \in 1..Len(splOut) : ChunkIndex(splOut[h]) = from
         IN splOut[k].text \o TextInIndexOrder(from + 1)

\* C14: after the call, the texts of the payloads joined in chunk-index
\* order are the response's text, and every payload has the response's
\* request id, ok and code.
C14_TextPreserved ==
    splPc = "done" =>
        /\ \A from \in 1..Len(splOut) : \E h \in 1..Len(splOut) : ChunkIndex(splOut[h]) = from
        /\ TextInIndexOrder(1) = splResponse.text
        /\ \A k \in 1..Len(splOut) :
              /\ splOut[k].id = splResponse.request_id
              /\ splOut[k].ok = splResponse.ok
              /\ splOut[k].code = splResponse.code

\* A text of different characters was cut into ten or more payloads, some
\* of them with several characters.
C14_Witness ==
    /\ splPc = "done" /\ Len(splOut) >= 10
    /\ \E i, j \in 1..Len(splResponse.text) : splResponse.text[i] # splResponse.text[j]
    /\ \E k \in 1..Len(splOut) : Len(splOut[k].text) >= 2
    /\ ~splResponse.ok

\* C15: every payload, encoded with its own chunk index and the final
\* total, is at most max_bytes long, unless its text is a single character.
C15_WithinLimit ==
    splPc = "done" =>
        \A k \in 1..Len(splOut) : splOut[k].len > splMaxBytes => Len(splOut[k].text) = 1

\* Ten or more payloads, one of several characters that fills the limit
\* exactly and one whose single character does not fit.
C15_Witness ==
    /\ splPc = "done" /\ Len(splOut) >= 10
    /\ \E k \in 1..Len(splOut) : Len(splOut[k].text) >= 2 /\ splOut[k].len = splMaxBytes
    /\ \E k \in 1..Len(splOut) : Len(splOut[k].text) = 1 /\ splOut[k].len > splMaxBytes

\* C16: a response whose encoding is at most max_bytes long yields exactly
\* one payload, the encoding itself, and its data has no chunk key.
C16_SingleFrame ==
    (splPc = "done" /\ encode_response(splResponse).len <= splMaxBytes) =>
        /\ splOut = <<encode_response(splResponse)>>
        /\ ~HasChunk(splOut[1])
        /\ splOut[1].data = splResponse.data

\* A response with data and a text that fills the limit to the byte was
\* yielded as it is.
C16_Witness ==
    /\ splPc = "done" /\ Len(splOut) = 1
    /\ encode_response(splResponse).len = splMaxBytes
    /\ Len(splResponse.text) >= 2 /\ ~splResponse.data.none
    /\ ~HasChunk(splOut[1])

\* C17: a response whose encoding is longer than max_bytes yields N >= 1
\* payloads; the k-th payload has data.chunk.index = k and every payload
\* has data.chunk.total = N.
C17_ChunkNumbering ==
    (splPc = "done" /\ encode_response(splResponse).len > splMaxBytes) =>
        /\ Len(splOut) >= 1
        /\ \A k \in 1..Len(splOut) :
              /\ HasChunk(splOut[k])
              /\ ChunkOf(splOut[k]).index = k
              /\ ChunkOf(splOut[k]).total = Len(splOut)

\* The step is one iteration of a wait loop, and clRead' is what it read.
Polls == clPolls' = clPolls + 1

\* The step ends the call.
Ends == clResult.kind = "waiting" /\ clResult'.kind # "waiting"

\* The texts kept for the indices 1..total, joined in index order.
RECURSIVE InIndexOrder(_, _, _)
InIndexOrder(buffer, i, total) ==
    IF i > total THEN <<>> ELSE buffer[i] \o InIndexOrder(buffer, i + 1, total)

\* C18: wait_response returns an assembled response only in a step after
\* which a fragment is kept for every index 1..total of the frame just
\* read; its text is the kept fragments joined in index order, its id, ok,
\* code and data are the frame's, without chunk key; and a fragment whose
\* index is already kept changes neither the buffer nor last_chunk_time.
C18_Reassembly ==
    [][/\ (Ends /\ clResult'.why = "assembled") =>
              /\ clRead'.id = AwaitedId
              /\ \A i \in 1..clRead'.total : i \in DOMAIN rx_chunks'
              /\ clResult'.response.text = InIndexOrder(rx_chunks', 1, clRead'.total)
              /\ ~HasChunkKey(clResult'.response)
              /\ clResult'.response = [clRead' EXCEPT !.text = clResult'.response.text,
                                                      !.index = 0, !.total = 0]
       /\ (Polls /\ clCall = "wait_response" /\ clRead'.kind = "frame" /\ clRead'.id = AwaitedId
             /\ clRead'.index \in DOMAIN rx_chunks)
            => UNCHANGED <<rx_chunks, last_chunk_time>>
      ]_vars

\* The texts of the fragments sent for the other request id.
StrayTexts == {ChunkText(i, "x") : i \in 1..MaxChunk} \cup {<<"stale">>}

\* C19: in wait_response and in wait_status an iteration that reads a
\* well-formed frame for another request id keeps no fragment, resets no
\* timer, leaves the last status and signature alone and does not end the
\* call; no text of such a frame is ever in the buffer or in the response
\* returned.
C19_StrayDiscarded ==
    [][/\ (Polls /\ clRead'.kind = "frame" /\ clRead'.id # AwaitedId)
            => UNCHANGED <<rx_chunks, total_chunks, last_chunk_time, last_progress, last_status,
                           last_signature, clResult>>
       /\ \A i \in DOMAIN rx_chunks' : rx_chunks'[i] \notin StrayTexts
       /\ clResult'.kind = "response" => \A k \in 1..Len(clResult'.response.text) :
                                             <<clResult'.response.text[k]>> \notin StrayTexts
       /\ clResult'.kind = "run_result" => clResult'.response.id # "B"
      ]_vars

\* Fragments 1 and 2 of 3 for the awaited id are kept and the third read
\* gave fragment 3 of 3 for another id: the call still waits, the buffer
\* holds the two fragments and last_chunk_time is the time of the second.
C19_Witness ==
    /\ clCall = "wait_response" /\ clPolls = 3 /\ clResult.kind = "waiting"
    /\ clRead = ClFrame("B", TRUE, CODE_OK, ChunkText(3, "x"), 3, 3, "absent")
    /\ DOMAIN rx_chunks = {1, 2} /\ total_chunks = 3
    /\ last_chunk_time = 2 /\ clNow = 3

\* The frame read is for the awaited request and its data.final is true.
FinalFrame(read) == read.kind = "frame" /\ read.id = AwaitedId /\ read.final = "true"

\* The outcomes the status codes stand for.
OutcomeOf(code) ==
    IF code = CODE_PROVISION_SUCCESS THEN "SUCCESS"
    ELSE IF code \in {CODE_PROVISION_FAIL, CODE_BUSY} THEN "FAILED" ELSE "None"

\* C20: wait_status ends with SUCCESS or FAILED only in an iteration that
\* reads a final frame for the awaited id, and then with the outcome of the
\* frame's status code; a matching frame that is not final does not end the
\* call; and a call that ends without a final frame ends with TIMEOUT.
C20_FinalOnly ==
    [][clCall = "wait_status" =>
         /\ (Polls /\ clRead'.kind = "frame" /\ clRead'.id = AwaitedId /\ clRead'.final # "true")
               => clResult'.kind = "waiting"
         /\ (Ends /\ clResult'.code \in {"SUCCESS", "FAILED"})
               => (Polls /\ FinalFrame(clRead') /\ clResult'.code = OutcomeOf(clRead'.code))
         /\ (Ends /\ ~(Polls /\ FinalFrame(clRead'))) => clResult'.code = "TIMEOUT"
      ]_vars

\* A step of wait_status in which the idle timer was reset.
IdleReset == clCall = "wait_status" /\ last_progress' # last_progress

\* The idle timeout has expired at the top of the loop and the hard ceiling
\* has not.
IdleExpired ==
    /\ Waiting("wait_status")
    /\ idle_elapsed >= idle_timeout
    /\ elapsed < hard_timeout

\* C21 as stated: the idle timer is reset only by a frame for the awaited
\* id whose (code, status, final) differs from the previous matching
\* frame's; and once the idle timeout has expired before the hard ceiling,
\* the call returns TIMEOUT with a message that contains the last status
\* text itself.
C21_AsStated ==
    [][/\ IdleReset => /\ Polls /\ clRead'.kind = "frame" /\ Matches(clRead')
                       /\ <<clRead'.code, StatusOf(clRead'.text), IsFinal(clRead')>> # last_signature
       /\ IdleExpired => /\ clResult' = Returns("run_result", "TIMEOUT", "idle", clResult'.response)
                         /\ clResult'.response.text = last_status
      ]_vars

\* C21: the idle timer is reset only by a frame for the awaited id whose
\* (code, status, final) differs from the previous matching frame's; and
\* once the idle timeout has expired before the hard ceiling, the call
\* returns TIMEOUT with a message that contains the last status text, with
\* its line breaks replaced by " | " and cut after 90 characters, the cut
\* marked by "...": the text itself when it is one line of at most 90.
C21_IdleTimeout ==
    [][/\ IdleReset => /\ Polls /\ clRead'.kind = "frame" /\ Matches(clRead')
                       /\ <<clRead'.code, StatusOf(clRead'.text), IsFinal(clRead')>> # last_signature
       /\ IdleExpired =>
            /\ clResult' = Returns("run_result", "TIMEOUT", "idle", clResult'.response)
            /\ clResult'.response.text =
                 IF TextLen(last_status) <= StatusLimit /\ \A i \in DOMAIN last_status : last_status[i] # "nl"
                 THEN last_status
                 ELSE IF last_status = <<"x90", "y">> THEN <<"x90", "...">>
                 ELSE <<"s1", " | ", "s2">>
      ]_vars

\* A status was seen twice, the second time without resetting the timer,
\* and the call has ended with the idle timeout naming that status, before
\* the hard ceiling.
C21_Witness ==
    /\ clCall = "wait_status" /\ clTimeout = 7
    /\ clResult.kind = "run_result" /\ clResult.code = "TIMEOUT" /\ clResult.why = "idle"
    /\ clResult.response.text = <<"s2">>
    /\ clRead.kind = "frame" /\ clRead.text = <<"s2">> /\ Matches(clRead)
    /\ clNow - last_progress >= clTimeout * TicksPerSecond
    /\ elapsed < hard_timeout

\* C22: both waits have a ceiling on the total elapsed time that does not
\* depend on the frames read: no iteration starts once it has elapsed, and
\* the wait then returns a timeout.  wait_status computes the ceiling
\* hard_timeout from its timeout; wait_response computes none, and the same
\* ceiling is taken here for the same timeout.
C22_HardCeiling ==
    [][/\ Polls => elapsed < hard_timeout
       /\ (clResult.kind = "waiting" /\ elapsed >= hard_timeout)
             => \/ clResult'.kind = "run_result" /\ clResult'.code = "TIMEOUT"
                \/ clResult'.kind = "none"
      ]_vars

\* The calls of wrLog, by position.
Calls == DOMAIN wrLog

\* The transport writes of a call were unacknowledged ones only.
OnlyUnacknowledged(call) == \A k \in DOMAIN call.outcome.sent : ~call.outcome.sent[k].response

\* C23: once a write on the connection has returned mode WithoutResponse,
\* every later write on it makes one transport write, unacknowledged, and
\* the mode it returns is WithoutResponseSticky.
C23_StickyFallback ==
    \A i \in Calls, j \in Calls :
        (i < j /\ ~wrLog[i].outcome.raised /\ wrLog[i].outcome.mode = WITHOUT_RESPONSE)
            => /\ Len(wrLog[j].outcome.sent) = 1
               /\ OnlyUnacknowledged(wrLog[j])
               /\ ~wrLog[j].outcome.raised => wrLog[j].outcome.mode = WITHOUT_RESPONSE_STICKY

\* The call was made with a state and a configuration that use the sticky
\* mode.
StickyCall(call) == call.state.sticky_no_response /\ call.config.allow_no_response

\* The acknowledged write of the call was attempted and failed.
AckFailed(call) == ~StickyCall(call) /\ ~call.ack.ok

\* The failure of the acknowledged write counts as a delivery.
AssumedSent(call) ==
    /\ AckFailed(call)
    /\ "Code=14" \in call.ack.message \/ "Unlikely error" \in call.ack.message
    /\ call.config.assume_sent_on_ack_quirk

\* The failure of the acknowledged write is one the negotiator may fall
\* back from.
FallsBack(call) ==
    /\ AckFailed(call) /\ ~AssumedSent(call)
    /\ "CBATTErrorDomain" \in call.ack.message
    /\ call.config.allow_no_response

\* C24: a call whose acknowledged write fails with a CBATTErrorDomain
\* message that is not taken for a delivery, with fallback allowed, sends
\* the payload twice, acknowledged and then unacknowledged; when the second
\* write goes through it returns mode WithoutResponse and a sticky state.
C24_Fallback ==
    \A i \in Calls :
        FallsBack(wrLog[i]) =>
            LET outcome == wrLog[i].outcome
            IN /\ outcome.sent = <<GattWrite(i, TRUE), GattWrite(i, FALSE)>>
               /\ ~outcome.raised => /\ outcome.mode = WITHOUT_RESPONSE
                                     /\ outcome.next_state = WriteState(TRUE)

\* A write fell back after a message that holds both CBATTErrorDomain and
\* Code=14, under a configuration that does not assume delivery.
C24_Witness ==
    \E i \in Calls :
        /\ FallsBack(wrLog[i]) /\ wrLog[i].ack.message = {"CBATTErrorDomain", "Code=14"}
        /\ wrLog[i].outcome.mode = WITHOUT_RESPONSE
        /\ wrPath = "session" /\ wrState = WriteState(TRUE)

\* C25: a call whose acknowledged write fails with an acknowledgement quirk
\* under a configuration that assumes delivery makes that one transport
\* write only, returns mode WithResponseAssumeSent and returns the state it
\* was given; the session's state stays what it was.
C25_AssumeSent ==
    /\ [] \A i \in Calls :
         AssumedSent(wrLog[i]) =>
            LET outcome == wrLog[i].outcome
            IN /\ outcome.sent = <<GattWrite(i, TRUE)>>
               /\ ~outcome.raised /\ outcome.mode = WITH_RESPONSE_ASSUME_SENT
               /\ outcome.next_state = wrLog[i].state
    /\ [][\A i \in DOMAIN wrLog' : (i \notin Calls /\ AssumedSent(wrLog'[i])) => wrState' = wrState]_vars

\* After a write that went through, a write that failed with "Unlikely
\* error" was assumed sent.
C25_Witness ==
    \E i \in Calls :
        /\ AssumedSent(wrLog[i]) /\ wrLog[i].ack.message = {"Unlikely error"}
        /\ wrLog[i].outcome.mode = WITH_RESPONSE_ASSUME_SENT
        /\ i > 1 /\ wrLog[i - 1].outcome.mode = WITH_RESPONSE

\* C26: a call with a sticky state and fallback allowed makes one transport
\* write, unacknowledged; when it goes through the call returns mode
\* WithoutResponseSticky and the sticky state, and the session stays
\* sticky whether it went through or not.
C26_StickyDirect ==
    /\ [] \A i \in Calls :
         StickyCall(wrLog[i]) =>
            LET outcome == wrLog[i].outcome
            IN /\ outcome.sent = <<GattWrite(i, FALSE)>>
               /\ ~outcome.raised => /\ outcome.mode = WITHOUT_RESPONSE_STICKY
                                     /\ outcome.next_state = WriteState(TRUE)
    /\ [][\A i \in DOMAIN wrLog' : (i \notin Calls /\ StickyCall(wrLog'[i])) => wrState' = WriteState(TRUE)]_vars

\* Two sticky writes followed a fallback, on a transport whose acknowledged
\* write would have failed.
C26_Witness ==
    /\ Len(wrLog) = 3
    /\ wrLog[1].outcome.mode = WITHOUT_RESPONSE
    /\ \A i \in {2, 3} : /\ StickyCall(wrLog[i]) /\ ~wrLog[i].ack.ok
                         /\ wrLog[i].outcome.mode = WITHOUT_RESPONSE_STICKY

\* C27: a call whose acknowledged write fails with a failure that is
\* neither taken for a delivery nor one to fall back from raises that
\* failure after the one acknowledged write, and the session's state stays
\* what it was.
C27_Propagates ==
    /\ [] \A i \in Calls :
         (AckFailed(wrLog[i]) /\ ~AssumedSent(wrLog[i]) /\ ~FallsBack(wrLog[i])) =>
            LET outcome == wrLog[i].outcome
            IN /\ outcome.raised /\ outcome.detail = wrLog[i].ack.message
               /\ outcome.sent = <<GattWrite(i, TRUE)>>
    /\ [][\A i \in DOMAIN wrLog' :
            (i \notin Calls /\ AckFailed(wrLog'[i]) /\ ~AssumedSent(wrLog'[i]) /\ ~FallsBack(wrLog'[i]))
                => wrState' = wrState]_vars

\* A CBATTErrorDomain failure was raised by a session that is not allowed
\* to fall back, after a write that went through.
C27_Witness ==
    \E i \in Calls :
        /\ i > 1 /\ wrLog[i - 1].outcome.mode = WITH_RESPONSE
        /\ wrLog[i].outcome.raised /\ wrLog[i].ack.message = {"CBATTErrorDomain"}
        /\ ~wrLog[i].config.allow_no_response
        /\ wrPath = "session"

\* ---------------------------------------------------------------------
\* The codec of requests and responses
\* ---------------------------------------------------------------------
\* A Python value that is a JSON value: no tuple and no NaN in it.
RECURSIVE IsJsonValue(_)
IsJsonValue(py) ==
    IF py.t \in {"tuple", "float"} THEN FALSE
    ELSE IF py.t = "list" THEN \A i \in DOMAIN py.items : IsJsonValue(py.items[i])
    ELSE IF py.t = "dict" THEN \A k \in DOMAIN py.d : IsJsonValue(py.d[k])
    ELSE TRUE

\* A finished parse_request(encode_request(r)).
RequestRoundTrip == cdPc = "done" /\ cdOp = "request_roundtrip"

\* The round trip gave back the request it was given.
RequestPreserved == ~cdOut.err /\ cdOut.value = cdIn

\* A string that strip() leaves as it is and that is not empty.
Trimmed(str) == str # "" /\ strip(str) = str

\* As stated: every request with a non-empty id, a non-empty command and
\* a JSON object for args comes back as it was.
C28_AsStated ==
    (RequestRoundTrip /\ cdIn.request_id # "" /\ cdIn.command # "" /\ IsJsonValue(cdIn.args))
        => RequestPreserved

\* C28: a request whose request_id and command are non-empty and carry no
\* whitespace at either end, and whose args is a JSON object, comes back
\* from parse_request(encode_request(r)) with the same request_id, command
\* and args.
C28_RoundTrip ==
    (RequestRoundTrip /\ Trimmed(cdIn.request_id) /\ Trimmed(cdIn.command) /\ IsJsonValue(cdIn.args))
        => RequestPreserved

\* A request with two arguments, one of them null, came back as it was.
C28_Witness ==
    /\ RequestRoundTrip /\ RequestPreserved
    /\ cdIn.request_id = "req-1" /\ cdIn.command = "a b"
    /\ DOMAIN cdIn.args.d = {"ssid", "pwd"} /\ cdIn.args.d["pwd"] = PyNone

\* A finished parse_response(encode_response(r)).
ResponseRoundTrip == cdPc = "done" /\ cdOp = "response_roundtrip"

\* The round trip gave back the response it was given.
ResponsePreserved == ~cdOut.err /\ cdOut.value = cdIn

RequestParsed == cdPc = "done" /\ cdOp = "parse_request"

\* The member of the top-level object of a text, NoMember without one.
Member(text, name) ==
    IF text.kind = "json" /\ text.value.j = "object" /\ name \in DOMAIN text.value.members
    THEN text.value.members[name] ELSE NoMember

\* No string, or a string with nothing but whitespace in it.
NoText(member) == member.j # "string" \/ strip(member.s) = ""

\* The code a text is answered with, given the ids that count as absent.
ExpectedCode(text, absent) ==
    IF text.kind # "json" THEN CODE_BAD_JSON
    ELSE IF text.value.j # "object" THEN CODE_BAD_REQUEST
    ELSE IF NoText(Member(text, "cmd")) THEN CODE_BAD_REQUEST
    ELSE IF Member(text, "id") \notin absent /\ NoText(Member(text, "id")) THEN CODE_BAD_REQUEST
    ELSE IF Member(text, "args") # NoMember /\ Member(text, "args").j # "object" THEN CODE_BAD_REQUEST
    ELSE CODE_OK

\* The request a text is parsed into, given the ids that count as absent.
ExpectedRequest(text, absent) ==
    CommandRequest(IF Member(text, "id") \in absent THEN new_request_id(1) ELSE strip(Member(text, "id").s),
                   strip(Member(text, "cmd").s),
                   IF Member(text, "args") = NoMember THEN EmptyDict ELSE FromJson(Member(text, "args")))

\* parse_request answers a text as the rules say, given the ids that
\* count as absent.
ParsedAsExpected(absent) ==
    /\ cdOut.code = ExpectedCode(cdIn, absent)
    /\ cdOut.err = (cdOut.code # CODE_OK)
    /\ ~cdOut.err => cdOut.value = ExpectedRequest(cdIn, absent)

\* As stated: an id that is there and is no non-empty string, null
\* included, fails with BAD_REQUEST.
C30_AsStated == RequestParsed => ParsedAsExpected({NoMember})

\* C30: parse_request fails with BAD_JSON exactly when json.loads refuses
\* the text, and with BAD_REQUEST exactly when the top-level value is not
\* an object, cmd is missing, blank or not a string, id is neither missing
\* nor null and is not a non-blank string, or args is present but not an
\* object; otherwise it succeeds with the stripped id and command, a
\* generated id when id is missing or null, and an empty mapping when args
\* is missing.
C30_ParseRequest == RequestParsed => ParsedAsExpected({NoMember, JsonNull})

\* A text with a command and neither id nor args was parsed into a request
\* with a generated id and no arguments.
C30_Witness ==
    /\ RequestParsed
    /\ cdIn = JsonText(RequestObject(NoMember, JsonString("a "), NoMember))
    /\ cdOut = Parsed(CommandRequest(new_request_id(1), "a", EmptyDict))

\* ---------------------------------------------------------------------
\* The publisher: status text, outbound frames and reads
\* ---------------------------------------------------------------------
\* The call that has just been logged.
LastCall == pubLog'[Len(pubLog')]

\* A publish call that put a frame of its response into the outbound slot.
Published(call) == call.op = "publish" /\ call.payloads # <<>>

\* C31: status_text is 'Standby' until the first call; a response with
\* code BUSY, IN_PROGRESS, PROVISION_SUCCESS or PROVISION_FAIL that is
\* published makes its text the status_text, and every other call leaves
\* status_text as it was.
C31_StatusText ==
    /\ [](pubLog = <<>> /\ _status_text # <<>> => _status_text = StandbyText)
    /\ [][pubLog' # pubLog =>
            _status_text' =
                IF Published(LastCall)
                   /\ LastCall.response.code \in {CODE_BUSY, CODE_IN_PROGRESS, CODE_PROVISION_SUCCESS,
                                                  CODE_PROVISION_FAIL}
                THEN LastCall.response.text ELSE _status_text]_vars

\* An OK response left 'Standby' in place, the IN_PROGRESS response of two
\* frames published after it replaced it, and a read changed nothing.
C31_Witness ==
    /\ Len(pubLog) = 3
    /\ Published(pubLog[1]) /\ pubLog[1].response.code = CODE_OK
    /\ Published(pubLog[2]) /\ pubLog[2].response.code = CODE_IN_PROGRESS
    /\ Len(pubLog[2].payloads) = 2
    /\ pubLog[3].op = "read"
    /\ _status_text = pubLog[2].response.text /\ _status_text # StandbyText

\* C36: every publish call gets at least one frame from the splitter and
\* leaves a frame of the response it was given in the outbound slot.
C36_NeverDropped ==
    [][(pubLog' # pubLog /\ LastCall.op = "publish") =>
            /\ LastCall.payloads # <<>>
            /\ _last_payload'.id = LastCall.response.request_id
            /\ _last_payload'.code = LastCall.response.code]_vars

\* The reads and the publish calls logged so far.
ReadCalls == {i \in DOMAIN pubLog : pubLog[i].op = "read"}
PublishCalls == {i \in DOMAIN pubLog : pubLog[i].op = "publish"}

\* Read i is the k-th read after call j and returned frame k of its
\* response, the last frame when k is beyond the number of frames.
ReadsFrameOf(i, j) ==
    LET k == Cardinality({m \in ReadCalls : j < m /\ m <= i})
        N == Len(pubLog[j].payloads)
    IN /\ N >= 1
       /\ pubLog[i].returned = <<pubLog[j].payloads[IF k <= N THEN k ELSE N]>>

\* Every read after a response that left frames in the slot, with only
\* calls that left none in between, follows the frames of that response.
ReadsFollowPublished ==
    \A i \in ReadCalls : \A j \in PublishCalls :
        (j < i /\ Published(pubLog[j]) /\ \A m \in PublishCalls : (j < m /\ m < i) => ~Published(pubLog[m]))
            => ReadsFrameOf(i, j)

\* C37: the k-th read after a publish call and before the next returns
\* frame k of the published response, frame N from the N-th read on; so
\* every read returns a frame of the response of the latest publish call.
C37_ReadOrder ==
    \A i \in ReadCalls : \A j \in PublishCalls :
        (j < i /\ \A m \in PublishCalls : ~(j < m /\ m < i)) => ReadsFrameOf(i, j)

\* ---------------------------------------------------------------------
\* Termination of the splitter
\* ---------------------------------------------------------------------
\* The pieces of a split, joined.
RECURSIVE Joined(_)
Joined(chunks) == IF chunks = <<>> THEN <<>> ELSE Head(chunks) \o Joined(Tail(chunks))

\* A split of the text in which every step consumed at least one character.
ProperSplit(chunks, text) ==
    /\ \A k \in 1..Len(chunks) : Len(chunks[k]) >= 1
    /\ Joined(chunks) = text

\* The split kept when the refinement is given a number of passes.
SplitAfter(passes) ==
    Refine(splResponse, splMaxBytes, _split_with_total_hint(splResponse, splMaxBytes, 1), passes)

\* The total hints that differ in their number of digits, and the numbers
\* of passes the refinement is given: none, one, and the 8 of the code.
Hints == {1, 10}
Passes == {0, 1, RefineRounds}

\* C34: for a response that does not fit, every split step consumes at
\* least one character, so a split has at most as many pieces as the text
\* has characters; whether the refinement is given 8 passes or runs out of
\* them earlier, it ends with a split of the whole text, the one computed
\* last;
\* and every emitted frame carries the number of emitted frames as total.
C34_Terminates ==
    (splPc = "done" /\ encode_response(splResponse).len > splMaxBytes) =>
        LET splits == [hint \in Hints |-> _split_with_total_hint(splResponse, splMaxBytes, hint)]
            kept == [passes \in Passes |-> SplitAfter(passes)]
        IN /\ \A hint \in Hints : ProperSplit(splits[hint], splResponse.text)
           /\ \A passes \in Passes : \E hint \in Hints : kept[passes] = splits[hint]
           /\ Len(splOut) = Len(kept[RefineRounds])
           /\ \A k \in 1..Len(splOut) :
                 /\ splOut[k].text = kept[RefineRounds][k]
                 /\ ChunkOf(splOut[k]).total = Len(splOut)

\* A text of which one character does not fit into a frame was split, and
\* the refinement ended on a split with more pieces than the first one.
C34_Witness ==
    /\ splPc = "done" /\ encode_response(splResponse).len > splMaxBytes
    /\ \E k \in 1..Len(splOut) : Len(splOut[k].text) = 1 /\ splOut[k].len > splMaxBytes
    /\ Len(SplitAfter(0)) < Len(splOut)


(***************************************************************************)
(* The heartbeat of an attempt.                                            *)
(***************************************************************************)
\* The step in which the heartbeat task of attempt i publishes.
HeartbeatPublish(i) ==
    /\ Len(log') = Len(log) + 1
    /\ log'[Len(log')].by = "hb" /\ log'[Len(log')].src = i

\* The "Connecting" responses attempt i has published.
ConnectingOf(i) ==
    {k \in Entries : log[k].by = "pv" /\ log[k].src = i
                       /\ log[k].resp = response_status(pvRid[i], CODE_IN_PROGRESS, "Connecting", FALSE)}

HeartbeatsOf(i) == {k \in Entries : log[k].by = "hb" /\ log[k].src = i}

\* C32: a heartbeat of an attempt is an IN_PROGRESS response with the
\* attempt's request id, published after the attempt's "Connecting"
\* response, while the attempt holds the lock and its call of the join has
\* not returned; when the attempt has published its final response or has
\* ended, its heartbeat task is done, and no heartbeat of the attempt is
\* in the log behind the attempt's final response.
C32_Heartbeat ==
    /\ [](\A i \in Attempts :
            /\ (FinalsOf(i) # {} \/ pvPc[i] = "done") => hbPc[i] \in {"none", "done"}
            /\ \A k1 \in FinalsOf(i), k2 \in HeartbeatsOf(i) : k2 < k1)
    /\ [][\A i \in Attempts :
            HeartbeatPublish(i)
              => /\ log'[Len(log')].resp.rid = pvRid[i]
                 /\ log'[Len(log')].resp.code = CODE_IN_PROGRESS
                 /\ log'[Len(log')].resp.final = "false"
                 /\ ConnectingOf(i) # {}
                 /\ lockHolder = i /\ lockHolder' = i
                 /\ InJoin(i) /\ InJoin(i)'
                 /\ FinalsOf(i) = {}
                 /\ hbPc'[i] # "done"
      ]_vars

\* An attempt has published "Connecting", a heartbeat and its final
\* response, in this order, and its heartbeat task is done.
C32_Witness ==
    \E i \in Attempts : \E k0 \in ConnectingOf(i), k1 \in HeartbeatsOf(i), k2 \in FinalsOf(i) :
        /\ k0 < k1 /\ k1 < k2
        /\ hbPc[i] = "done" /\ pvPc[i] = "done"


(***************************************************************************)
(* Shutdown while an attempt is in flight.                                 *)
(***************************************************************************)
\* stop() has returned to main().
StopCompleted == mainPc = "done"

\* C33: when stop() has completed, no heartbeat is published any more: a
\* step taken after stop() has returned is not a heartbeat publish of any
\* attempt.
C33_NoBeatAfterStop ==
    [][StopCompleted => \A i \in Attempts : ~HeartbeatPublish(i)]_vars


(***************************************************************************)
(* BUSY and the request id of the attempt under way.                       *)
(***************************************************************************)
\* The request ids of the attempts that are accepted and have not ended.
InFlightIds == {pvRid[i] : i \in {j \in Attempts : Live(j)}}

\* C38: a step that publishes a BUSY response with final=true, whatever
\* the sequence of writes and also when the same frame is written twice,
\* publishes it with a request id that is not the id of an attempt that is
\* accepted or in flight.
C38_BusyNotInFlight ==
    [][(Len(log') = Len(log) + 1 /\ log'[Len(log')].resp.code = CODE_BUSY
           /\ log'[Len(log')].resp.final = "true")
         => log'[Len(log')].resp.rid \notin InFlightIds
      ]_vars


(***************************************************************************)
(* The lock and the pending flag.                                          *)
(***************************************************************************)
\* The attempt's task is about to run its first step.
AtFirstStep(i) == pvPc[i] = "new" /\ ready # <<>> /\ Head(ready) = T("pv", i)

\* C39: under inbound writes the lock is held only while the pending flag
\* is set, and the flag is cleared only by a step that leaves the lock
\* free; an attempt created by _start_provision finds the lock free at its
\* first step, and no such attempt has published BUSY.
C39_LockImpliesPending ==
    /\ [](/\ lockHolder # 0 => pending
          /\ \A i \in Writes : AtFirstStep(i) => ~Locked
          /\ \A k \in Entries :
                (log[k].by = "pv" /\ log[k].src \in Writes) => log[k].resp.code # CODE_BUSY)
    /\ [][(pending /\ ~pending') => lockHolder' = 0]_vars

\* A second accepted attempt holds the lock, with the flag set, after the
\* first one has ended and cleared the flag.
C39_Witness ==
    \E i, j \in Writes :
        /\ i # j
        /\ startCalls[i] = "accepted" /\ pvPc[i] = "done"
        /\ startCalls[j] = "accepted" /\ lockHolder = j /\ pending


(***************************************************************************)
(* The answer to a shutdown request and the detaching of the transport.    *)
(***************************************************************************)
\* The "Shutdown scheduled" responses published so far.
ShutdownAnswers ==
    {k \in Entries : log[k].resp = response_ok(log[k].resp.rid, "Shutdown scheduled")}

\* C40: the step that publishes the OK "Shutdown scheduled" response to
\* the shutdown request that set the event (the first such response) is
\* taken while the transport is attached, that is, before stop() has set
\* self.server to None.
C40_PublishedBeforeDetach ==
    [][\A j \in Writes :
          (Len(log') = Len(log) + 1 /\ log'[Len(log')].by = "pw" /\ log'[Len(log')].src = j
             /\ log'[Len(log')].resp = response_ok(log'[Len(log')].resp.rid, "Shutdown scheduled")
             /\ ShutdownAnswers = {})
            => server
      ]_vars


(***************************************************************************)
(* The reply cache of the hello-world link server.                         *)
(***************************************************************************)
CacheEntries(cache) == {cache[k] : k \in DOMAIN cache}

\* The entry that was inserted earliest.
Earliest(cache) ==
    CHOOSE e \in CacheEntries(cache) : \A f \in CacheEntries(cache) : e.nth <= f.nth

\* The entry the step has put into the cache.
Inserted == _reply_cache'[Len(_reply_cache')]

\* C35: the cache never holds more than 64 tokens, each once, in the order
\* of their insertion.  A write whose token is cached is answered with the
\* reply stored under the token and leaves the cache as it is; a write
\* with a token that is not cached is answered with a new reply, which is
\* stored behind the others, and when the cache held 64 entries the one
\* inserted earliest, and no other, is removed; a write without a token
\* leaves the cache as it is.
C35_ReplyCache ==
    /\ [](/\ Len(_reply_cache) <= ReplyCacheCapacity
          /\ \A k1, k2 \in DOMAIN _reply_cache :
                k1 < k2 => /\ _reply_cache[k1].token # _reply_cache[k2].token
                           /\ _reply_cache[k1].nth < _reply_cache[k2].nth)
    /\ [][LET text == recv_text(lkIn')
              token == extract_seq_token(text)
              held == {e \in CacheEntries(_reply_cache) : e.token = token}
          IN IF token.t # "str" THEN UNCHANGED _reply_cache
             ELSE IF held # {}
               THEN /\ UNCHANGED _reply_cache
                    /\ \A e \in held : lkOut' = <<e.reply>>
               ELSE /\ lkOut' = <<build_server_reply(text)>>
                    /\ Inserted.token = token /\ Inserted.reply = lkOut'[1]
                    /\ \A e \in CacheEntries(_reply_cache) : e.nth < Inserted.nth
                    /\ CacheEntries(_reply_cache') =
                         (IF Len(_reply_cache) = ReplyCacheCapacity
                            THEN CacheEntries(_reply_cache) \ {Earliest(_reply_cache)}
                            ELSE CacheEntries(_reply_cache)) \cup {Inserted}
      ]_vars

\* The cache is full and has lost entries; the last write repeated a
\* cached token with another text and got the reply to the first text.
C35_Witness ==
    /\ Len(_reply_cache) = ReplyCacheCapacity /\ lkInserts > ReplyCacheCapacity
    /\ lkIn # <<>> /\ lkIn.tk = "str" /\ lkIn.variant = 2
    /\ lkOut[1].got.variant = 1
    /\ _reply_cache[1].token.n > 1

====
